---- MODULE Spec2Model ----
(***************************************************************************)
(* Model of the mcp-area battle engine (apps/functions/src/battleEngine.ts)*)
(* and of the driver boundary that calls it.                               *)
(*                                                                         *)
(* Numbers.  The engine rounds every stored coordinate, delta and energy   *)
(* with toFixed(4); the model stores them as integers in units of 1/10000  *)
(* (Scale).  Headings are stored in tenths of a degree (0..3599) instead   *)
(* of radians; the turn inputs of the modelled programs keep every heading *)
(* on a multiple of 1.5 degrees, for which CosTable gives cos to 4         *)
(* decimals.  Products that would leave the 32-bit range are computed with *)
(* MulDivMod, which is exact.                                              *)
(***************************************************************************)
EXTENDS Integers, Sequences, FiniteSets, TLC

\* ---------------------------------------------------------------- constants
Scale == 10000
TARGET_FPS == 60
VISION_RADIUS == 8
SHOT_RANGE == 5
VISION_HALF_ANGLE_DEG == 60
ROBOT_COLLISION_RADIUS == 3400
SHOT_HIT_RADIUS == 3600
FIRE_COOLDOWN_TICKS == 1
FIRE_ENERGY_COST == 6
PROJECTILE_TICKS_PER_TILE == 2
SideBoostFlatSequence == <<5, 5, 5, 5, 5>>
SIDE_BOOST_FORCE_SEQUENCE == <<5, 4, 3, 2, 1>>
SIDE_BOOST_BURST_TICKS == Len(SIDE_BOOST_FORCE_SEQUENCE)
SIDE_BOOST_ENERGY_MAX == 100
SIDE_BOOST_ENERGY_COST == 35
SIDE_BOOST_ENERGY_REGEN_PER_SECOND == 15
SIDE_BOOST_COOLDOWN_TICKS == 10
MEMORY_UNSEEN_TICKS_INITIAL == 9999
TICKS_PER_TILE == [FORWARD |-> 8, STRAFE |-> 12, BACKWARD |-> 16]
TURN_RATE_DEG_PER_SECOND == 360
DefaultMaxTicks == 500

\* ---------------------------------------------------------------- arithmetic
Abs(n) == IF n < 0 THEN -n ELSE n
Sign(n) == IF n < 0 THEN -1 ELSE IF n > 0 THEN 1 ELSE 0
Min2(a, b) == IF a <= b THEN a ELSE b
Max2(a, b) == IF a >= b THEN a ELSE b

\* <<q, r>> with a*b = q*c + r and 0 <= r < c, for a, b >= 0 and c > 0,
\* without forming the product a*b.
RECURSIVE MulDivMod(_, _, _)
MulDivMod(a, b, c) ==
  IF b = 0 THEN <<0, 0>>
  ELSE LET h == MulDivMod(a, b \div 2, c)
           add == IF b % 2 = 1 THEN a ELSE 0
           r2 == 2 * h[2] + (add % c)
       IN <<2 * h[1] + (add \div c) + (r2 \div c), r2 % c>>

\* n/d rounded to the nearest integer, halves away from zero (toFixed), d > 0.
RoundDiv(n, d) == Sign(n) * ((Abs(n) \div d) + (IF 2 * (Abs(n) % d) >= d THEN 1 ELSE 0))

\* a*b/c rounded to the nearest integer, halves away from zero, c > 0.
\* When (|a| % c) * |b| fits in 32 bits the quotient is formed by long division.
RoundMulDiv(a, b, c) ==
  LET Rounded(m) == m[1] + (IF 2 * m[2] >= c THEN 1 ELSE 0)
      QuotRem(x, y) ==
        IF c <= 1000000000 \div Max2(1, y)
        THEN <<(x \div c) * y + (((x % c) * y) \div c), ((x % c) * y) % c>>
        ELSE MulDivMod(x, y, c)
  IN Sign(a) * Sign(b) * Rounded(QuotRem(Abs(a), Abs(b)))

\* Squares and sums of squares exceed 32 bits; they are held as pairs
\* <<hi, lo>> = hi * 10^6 + lo with 0 <= lo < 10^6.
\* x*x for 0 <= x < 1050000, from x = u * 1000 + v.
Sq(x) ==
  LET u == x \div 1000
      v == x % 1000
      low == 2 * u * v * 1000 + v * v
  IN <<u * u + (low \div 1000000), low % 1000000>>

\* a*a + b*b
SumSq(a, b) ==
  LET Sum(p, q) == <<p[1] + q[1] + ((p[2] + q[2]) \div 1000000), (p[2] + q[2]) % 1000000>>
  IN Sum(Sq(Abs(a)), Sq(Abs(b)))

\* order of two pairs
PairLeq(p, q) == p[1] < q[1] \/ (p[1] = q[1] /\ p[2] <= q[2])

\* floor(sqrt(s)) for a pair s, by bisection on the bits of the root
RECURSIVE HypotBits(_, _, _)
HypotBits(s, acc, bit) ==
  IF bit = 0 THEN acc
  ELSE LET cand == acc + bit
       IN IF PairLeq(Sq(cand), s)
          THEN HypotBits(s, cand, bit \div 2)
          ELSE HypotBits(s, acc, bit \div 2)

\* floor(hypot(a, b)), for |a|, |b| < 700000
HypotFloor(a, b) == HypotBits(SumSq(a, b), 0, 524288)

\* hypot(a, b) <= limit, exactly
HypotLeq(a, b, limit) ==
  /\ Abs(a) <= limit
  /\ Abs(b) <= limit
  /\ PairLeq(SumSq(a, b), Sq(limit))

\* ---------------------------------------------------------------- angles
\* cos of 0, 1.5, 3, ..., 90 degrees, times Scale
CosTable == <<10000, 9997, 9986, 9969, 9945, 9914, 9877, 9833, 9781, 9724,
              9659, 9588, 9511, 9426, 9336, 9239, 9135, 9026, 8910, 8788,
              8660, 8526, 8387, 8241, 8090, 7934, 7771, 7604, 7431, 7254,
              7071, 6884, 6691, 6494, 6293, 6088, 5878, 5664, 5446, 5225,
              5000, 4772, 4540, 4305, 4067, 3827, 3584, 3338, 3090, 2840,
              2588, 2334, 2079, 1822, 1564, 1305, 1045, 785, 523, 262, 0>>

FullTurn == 3600

Cos4(h) ==
  LET Entry(a) == IF a <= 900 THEN a \div 15
                  ELSE IF a <= 1800 THEN (1800 - a) \div 15
                  ELSE IF a <= 2700 THEN (a - 1800) \div 15
                  ELSE (FullTurn - a) \div 15
      Negative(a) == a > 900 /\ a <= 2700
  IN (IF Negative(h % FullTurn) THEN -1 ELSE 1) * CosTable[Entry(h % FullTurn) + 1]

Sin4(h) == Cos4(h + 2700)

\* normalizeAngleRad, on tenths of a degree: TLA+ % is already non-negative
normalizeAngleRad(angle) == angle % FullTurn

\* normalizeHeadingDeg, on degrees scaled by Scale
normalizeHeadingDeg(value) == value % (360 * Scale)

DIRECTION_ANGLE_DEG == [E |-> 0, S |-> 90, W |-> 180, N |-> 270]

headingByDirection(direction) == DIRECTION_ANGLE_DEG[direction] * 10

directionFromHeading(heading) ==
  LET deg == normalizeAngleRad(heading)
  IN IF deg >= 3150 \/ deg < 450 THEN "E"
     ELSE IF deg >= 450 /\ deg < 1350 THEN "S"
     ELSE IF deg >= 1350 /\ deg < 2250 THEN "W"
     ELSE "N"

headingVector(heading) == [dx |-> Cos4(heading), dy |-> Sin4(heading)]

rightVector(forward) == [dx |-> -forward.dy, dy |-> forward.dx]

\* forward and lateral components of (dx, dy), in units of 1/Scale^2
toLocalCoordinates(heading, dx, dy) ==
  LET Local(forward, right) ==
        [forward |-> dx * forward.dx + dy * forward.dy,
         lateral |-> dx * right.dx + dy * right.dy]
  IN Local(headingVector(heading), rightVector(headingVector(heading)))

\* ---------------------------------------------------------------- arena
\* clampToArena without the clamp
clampToArenaUnclamped(position, arenaSize) ==
  [clamped |-> [x |-> position.x, y |-> position.y], hitBoundary |-> FALSE]

\* clampToArena never reporting the boundary
clampToArenaSilent(position, arenaSize) ==
  [clamped |-> [x |-> Max2(0, Min2((arenaSize - 1) * Scale, position.x)),
                y |-> Max2(0, Min2((arenaSize - 1) * Scale, position.y))],
   hitBoundary |-> FALSE]

clampToArena(position, arenaSize) ==
  LET maxCoord == (arenaSize - 1) * Scale
      clampedX == Max2(0, Min2(maxCoord, position.x))
      clampedY == Max2(0, Min2(maxCoord, position.y))
  IN [clamped |-> [x |-> clampedX, y |-> clampedY],
      hitBoundary |-> Abs(clampedX - position.x) > 0 \/ Abs(clampedY - position.y) > 0]

\* One wall candidate of buildWallRayHit: the ray parameter t = num/den
\* toward the wall line at `wall` on one axis; `o` and `d` are the origin
\* and direction on that axis, `po` and `pd` on the other axis.
WallCandidate(side, wall, o, d, po, pd, maxCoord) ==
  LET num == Abs(wall - o)
      den == Abs(d)
      positive == d # 0 /\ wall # o /\ Sign(wall - o) = Sign(d)
      crossNum == po * den + num * pd
      inRange == crossNum >= -(den \div 100) /\ crossNum - maxCoord * den <= den \div 100
      cross == Max2(0, Min2(maxCoord, RoundDiv(crossNum, Max2(1, den))))
  IN IF positive /\ inRange
     THEN <<[side |-> side, num |-> num, den |-> den, cross |-> cross]>>
     ELSE << >>

\* index of the first candidate with the smallest t (stable sort, then [0])
RECURSIVE NearestIndex(_, _, _)
NearestIndex(cands, best, i) ==
  IF i > Len(cands) THEN best
  ELSE NearestIndex(cands,
                    IF cands[i].num * cands[best].den < cands[best].num * cands[i].den
                    THEN i ELSE best,
                    i + 1)

buildWallRayHit(origin, direction, arenaSize) ==
  LET maxCoord == (arenaSize - 1) * Scale
      Hit(nearest) ==
        [point |-> IF nearest.side = "WEST" THEN [x |-> 0, y |-> nearest.cross]
                   ELSE IF nearest.side = "EAST" THEN [x |-> maxCoord, y |-> nearest.cross]
                   ELSE IF nearest.side = "NORTH" THEN [x |-> nearest.cross, y |-> 0]
                   ELSE [x |-> nearest.cross, y |-> maxCoord],
         side |-> nearest.side,
         distance |-> RoundMulDiv(nearest.num, Scale, nearest.den)]
      NearestOf(candidates) ==
        IF Len(candidates) = 0
        THEN [point |-> [x |-> origin.x, y |-> origin.y], side |-> "NORTH", distance |-> 0]
        ELSE Hit(candidates[NearestIndex(candidates, 1, 2)])
  IN NearestOf(
       WallCandidate("WEST", 0, origin.x, direction.dx, origin.y, direction.dy, maxCoord)
       \o WallCandidate("EAST", maxCoord, origin.x, direction.dx, origin.y, direction.dy, maxCoord)
       \o WallCandidate("NORTH", 0, origin.y, direction.dy, origin.x, direction.dx, maxCoord)
       \o WallCandidate("SOUTH", maxCoord, origin.y, direction.dy, origin.x, direction.dx, maxCoord))

\* ---------------------------------------------------------------- values
\* A JavaScript `number | null | undefined`: the number is in units of
\* 1/Scale.
Num(v) == [kind |-> "number", v |-> v]
NullValue == [kind |-> "null", v |-> 0]
UndefinedValue == [kind |-> "undefined", v |-> 0]
IsNum(value) == value.kind = "number"

\* value.toFixed(2), on units of 1/Scale
toFixed2(v) == RoundDiv(v, 100) * 100

\* ---------------------------------------------------------------- perception
\* tan(VISION_HALF_ANGLE_RAD) = tan(60 degrees), times Scale
VISION_HALF_ANGLE_TAN == 17321

distanceBand(dx, dy) ==
  IF HypotLeq(dx, dy, 2 * Scale) THEN "near"
  ELSE IF HypotLeq(dx, dy, 4 * Scale) THEN "mid"
  ELSE "far"

bearingByLateral(lateral) ==
  IF Abs(lateral) <= 7500 * Scale THEN "FRONT"
  ELSE IF lateral > 0 THEN "FRONT_RIGHT" ELSE "FRONT_LEFT"

buildWallPerception(actor, arenaSize) ==
  LET origin == [x |-> actor.x, y |-> actor.y]
      \* stable sort of AHEAD, LEFT, RIGHT, BACK by distance, then [0]
      Nearest(ahead, left, right, back) ==
        IF ahead <= left /\ ahead <= right /\ ahead <= back
        THEN [direction |-> "AHEAD", distance |-> ahead]
        ELSE IF left <= right /\ left <= back THEN [direction |-> "LEFT", distance |-> left]
        ELSE IF right <= back THEN [direction |-> "RIGHT", distance |-> right]
        ELSE [direction |-> "BACK", distance |-> back]
      Wall(aheadHit, leftHit, rightHit, backHit, leftEdgeHit, rightEdgeHit, nearest) ==
        [arenaSize |-> arenaSize,
         aheadDistance |-> aheadHit.distance,
         leftDistance |-> leftHit.distance,
         rightDistance |-> rightHit.distance,
         backDistance |-> backHit.distance,
         nearestDistance |-> nearest.distance,
         nearestDirection |-> nearest.direction,
         sightArc |-> [center |-> aheadHit, leftEdge |-> leftEdgeHit, rightEdge |-> rightEdgeHit]]
      OfHits(aheadHit, leftHit, rightHit, backHit, leftEdgeHit, rightEdgeHit) ==
        Wall(aheadHit, leftHit, rightHit, backHit, leftEdgeHit, rightEdgeHit,
             Nearest(aheadHit.distance, leftHit.distance, rightHit.distance, backHit.distance))
      Along(forward, right) ==
        OfHits(buildWallRayHit(origin, forward, arenaSize),
               buildWallRayHit(origin, [dx |-> -right.dx, dy |-> -right.dy], arenaSize),
               buildWallRayHit(origin, right, arenaSize),
               buildWallRayHit(origin, [dx |-> -forward.dx, dy |-> -forward.dy], arenaSize),
               buildWallRayHit(origin,
                 headingVector(actor.heading + FullTurn - VISION_HALF_ANGLE_DEG * 10), arenaSize),
               buildWallRayHit(origin,
                 headingVector(actor.heading + VISION_HALF_ANGLE_DEG * 10), arenaSize))
  IN Along(headingVector(actor.heading), rightVector(headingVector(actor.heading)))

NoEnemy ==
  [id |-> "none", dx |-> 0, dy |-> 0, distance |-> 0, distanceBand |-> "far",
   bearing |-> "FRONT", headingDeg |-> 0, headingDirection |-> "E",
   absolutePosition |-> [x |-> 0, y |-> 0]]

\* the four conditions under which the opponent is inside the vision cone
\* the opponent at offset (dx, dy), `local` in the actor's frame, is inside
\* the vision cone
InVisionCone(dx, dy, local) ==
  LET \* floor(max(0.0001, forward) * tan(60 degrees))
      Limit(f) == (f \div Scale) * VISION_HALF_ANGLE_TAN
                  + (((f % Scale) * VISION_HALF_ANGLE_TAN) \div Scale)
  IN /\ HypotLeq(dx, dy, VISION_RADIUS * Scale)
     /\ local.forward > 0
     /\ ~(Abs(local.lateral) > Limit(Max2(Scale, local.forward)))

\* buildPerception without the return for an actor that is not alive
buildPerceptionOfTheDead(actor, opponent, arenaSize) ==
  LET dx == opponent.x - actor.x
      dy == opponent.y - actor.y
      Seen(wall, local) ==
        IF ~opponent.alive \/ ~InVisionCone(dx, dy, local)
        THEN [range |-> VISION_RADIUS, enemyVisible |-> FALSE, enemy |-> NoEnemy, wall |-> wall]
        ELSE [range |-> VISION_RADIUS, enemyVisible |-> TRUE, enemy |-> NoEnemy, wall |-> wall]
  IN Seen(buildWallPerception(actor, arenaSize),
          toLocalCoordinates(actor.heading, dx, dy))

buildPerception(actor, opponent, arenaSize) ==
  LET dx == opponent.x - actor.x
      dy == opponent.y - actor.y
      Seen(wall, local) ==
        IF ~actor.alive \/ ~opponent.alive \/ ~InVisionCone(dx, dy, local)
        THEN [range |-> VISION_RADIUS, enemyVisible |-> FALSE, enemy |-> NoEnemy, wall |-> wall]
        ELSE [range |-> VISION_RADIUS,
              enemyVisible |-> TRUE,
              wall |-> wall,
              enemy |-> [id |-> opponent.id,
                         dx |-> dx,
                         dy |-> dy,
                         distance |-> ((HypotFloor(dx, dy) + 50) \div 100) * 100,
                         distanceBand |-> distanceBand(dx, dy),
                         bearing |-> bearingByLateral(local.lateral),
                         headingDeg |-> normalizeAngleRad(opponent.heading) * 1000,
                         headingDirection |-> directionFromHeading(opponent.heading),
                         absolutePosition |-> [x |-> opponent.x, y |-> opponent.y]]]
  IN Seen(buildWallPerception(actor, arenaSize), toLocalCoordinates(actor.heading, dx, dy))

\* ---------------------------------------------------------------- sensors
SENSOR_VARIABLES ==
  {"ARENA_SIZE", "SHOT_RANGE", "SHOT_HIT_RADIUS", "SELF_X", "SELF_Y", "SELF_HEADING",
   "SELF_ENERGY", "BOOST_COOLDOWN", "TICKS_SINCE_ENEMY_SEEN",
   "ENEMY_X", "ENEMY_Y", "ENEMY_HEADING", "ENEMY_DX", "ENEMY_DY", "ENEMY_DISTANCE",
   "ENEMY_FORWARD_DISTANCE", "ENEMY_LATERAL_OFFSET",
   "PREV_ENEMY_X", "PREV_ENEMY_Y", "PREV_ENEMY_HEADING",
   "PREV_ENEMY_DX", "PREV_ENEMY_DY", "PREV_ENEMY_DISTANCE",
   "ENEMY_DX_DELTA", "ENEMY_DY_DELTA", "ENEMY_DISTANCE_DELTA",
   "WALL_AHEAD_DISTANCE", "WALL_LEFT_DISTANCE", "WALL_RIGHT_DISTANCE",
   "WALL_BACK_DISTANCE", "WALL_NEAREST_DISTANCE"}

InitialEnemyMemory ==
  [prevEnemyX |-> NullValue, prevEnemyY |-> NullValue, prevEnemyHeading |-> NullValue,
   prevEnemyDx |-> NullValue, prevEnemyDy |-> NullValue, prevEnemyDistance |-> NullValue,
   ticksSinceEnemySeen |-> MEMORY_UNSEEN_TICKS_INITIAL]

\* current - previous, when the enemy is visible and the previous value exists
SensorDelta(visible, current, previous) ==
  IF visible /\ IsNum(previous) THEN Num(current - previous.v) ELSE NullValue

buildSensorContext(actor, opponent, perception, arenaSize) ==
  LET memory == actor.enemyMemory
      seen == perception.enemyVisible
      currentEnemy == perception.enemy
      whenSeen(v) == IF seen THEN Num(v) ELSE NullValue
      values ==
        [variable \in SENSOR_VARIABLES |->
          CASE variable = "ARENA_SIZE" -> Num(arenaSize * Scale)
            [] variable = "SELF_X" -> Num(actor.x)
            [] variable = "SELF_Y" -> Num(actor.y)
            [] variable = "SELF_HEADING" -> Num(normalizeAngleRad(actor.heading) * 1000)
            [] variable = "SELF_ENERGY" -> Num(toFixed2(actor.energy))
            [] variable = "BOOST_COOLDOWN" -> Num(actor.boostCooldownTicks * Scale)
            [] variable = "TICKS_SINCE_ENEMY_SEEN" ->
                 Num(IF seen THEN 0 ELSE memory.ticksSinceEnemySeen * Scale)
            [] variable = "ENEMY_X" -> whenSeen(opponent.x)
            [] variable = "ENEMY_Y" -> whenSeen(opponent.y)
            [] variable = "ENEMY_HEADING" -> whenSeen(currentEnemy.headingDeg)
            [] variable = "ENEMY_DX" -> whenSeen(currentEnemy.dx)
            [] variable = "ENEMY_DY" -> whenSeen(currentEnemy.dy)
            [] variable = "ENEMY_DISTANCE" -> whenSeen(currentEnemy.distance)
            [] variable = "PREV_ENEMY_X" -> memory.prevEnemyX
            [] variable = "PREV_ENEMY_Y" -> memory.prevEnemyY
            [] variable = "PREV_ENEMY_HEADING" -> memory.prevEnemyHeading
            [] variable = "PREV_ENEMY_DX" -> memory.prevEnemyDx
            [] variable = "PREV_ENEMY_DY" -> memory.prevEnemyDy
            [] variable = "PREV_ENEMY_DISTANCE" -> memory.prevEnemyDistance
            [] variable = "ENEMY_DX_DELTA" -> SensorDelta(seen, currentEnemy.dx, memory.prevEnemyDx)
            [] variable = "ENEMY_DY_DELTA" -> SensorDelta(seen, currentEnemy.dy, memory.prevEnemyDy)
            [] variable = "ENEMY_DISTANCE_DELTA" ->
                 SensorDelta(seen, currentEnemy.distance, memory.prevEnemyDistance)
            [] variable = "WALL_AHEAD_DISTANCE" -> Num(perception.wall.aheadDistance)
            [] variable = "WALL_LEFT_DISTANCE" -> Num(perception.wall.leftDistance)
            [] variable = "WALL_RIGHT_DISTANCE" -> Num(perception.wall.rightDistance)
            [] variable = "WALL_BACK_DISTANCE" -> Num(perception.wall.backDistance)
            [] variable = "WALL_NEAREST_DISTANCE" -> Num(perception.wall.nearestDistance)
            \* SHOT_RANGE, SHOT_HIT_RADIUS, ENEMY_FORWARD_DISTANCE and
            \* ENEMY_LATERAL_OFFSET have no key in the engine's table
            [] OTHER -> UndefinedValue]
  IN [enemyVisible |-> perception.enemyVisible, values |-> values]

\* updateEnemyMemory counting without the saturation
updateEnemyMemoryUnbounded(actor, opponent, perception) ==
  IF ~perception.enemyVisible
  THEN [actor EXCEPT !.enemyMemory.ticksSinceEnemySeen = actor.enemyMemory.ticksSinceEnemySeen + 1]
  ELSE [actor EXCEPT !.enemyMemory =
          [prevEnemyX |-> Num(opponent.x),
           prevEnemyY |-> Num(opponent.y),
           prevEnemyHeading |-> Num(perception.enemy.headingDeg),
           prevEnemyDx |-> Num(perception.enemy.dx),
           prevEnemyDy |-> Num(perception.enemy.dy),
           prevEnemyDistance |-> Num(perception.enemy.distance),
           ticksSinceEnemySeen |-> 0]]

\* updateEnemyMemory keeping the values of the first sighting
updateEnemyMemoryFirstSighting(actor, opponent, perception) ==
  IF ~perception.enemyVisible
  THEN [actor EXCEPT !.enemyMemory.ticksSinceEnemySeen =
          Min2(MEMORY_UNSEEN_TICKS_INITIAL, actor.enemyMemory.ticksSinceEnemySeen + 1)]
  ELSE IF IsNum(actor.enemyMemory.prevEnemyX)
  THEN [actor EXCEPT !.enemyMemory.ticksSinceEnemySeen = 0]
  ELSE [actor EXCEPT !.enemyMemory =
          [prevEnemyX |-> Num(opponent.x),
           prevEnemyY |-> Num(opponent.y),
           prevEnemyHeading |-> Num(perception.enemy.headingDeg),
           prevEnemyDx |-> Num(perception.enemy.dx),
           prevEnemyDy |-> Num(perception.enemy.dy),
           prevEnemyDistance |-> Num(perception.enemy.distance),
           ticksSinceEnemySeen |-> 0]]

updateEnemyMemory(actor, opponent, perception) ==
  IF ~perception.enemyVisible
  THEN [actor EXCEPT !.enemyMemory.ticksSinceEnemySeen =
          Min2(MEMORY_UNSEEN_TICKS_INITIAL, actor.enemyMemory.ticksSinceEnemySeen + 1)]
  ELSE [actor EXCEPT !.enemyMemory =
          [prevEnemyX |-> Num(opponent.x),
           prevEnemyY |-> Num(opponent.y),
           prevEnemyHeading |-> Num(perception.enemy.headingDeg),
           prevEnemyDx |-> Num(perception.enemy.dx),
           prevEnemyDy |-> Num(perception.enemy.dy),
           prevEnemyDistance |-> Num(perception.enemy.distance),
           ticksSinceEnemySeen |-> 0]]

\* ---------------------------------------------------------------- expressions
\* Expression values are numbers in units of 1/Scale.  A product or a
\* quotient is rounded to that unit.  Number.isFinite can only fail on an
\* undefined operand (NaN) at these magnitudes.

\* compareNumbers with != written as the negation of ==, which NaN satisfies
compareNumbersNegatedEquality(left, operator, right) ==
  IF operator = "!=" THEN ~(IsNum(left) /\ IsNum(right) /\ Abs(left.v - right.v) <= 0)
  ELSE IF ~IsNum(left) \/ ~IsNum(right) THEN FALSE
  ELSE IF operator = ">" THEN left.v > right.v
  ELSE IF operator = ">=" THEN left.v >= right.v
  ELSE IF operator = "<" THEN left.v < right.v
  ELSE IF operator = "<=" THEN left.v <= right.v
  ELSE Abs(left.v - right.v) <= 0

compareNumbers(left, operator, right) ==
  IF ~IsNum(left) \/ ~IsNum(right) THEN FALSE   \* NaN compares false
  ELSE IF operator = ">" THEN left.v > right.v
  ELSE IF operator = ">=" THEN left.v >= right.v
  ELSE IF operator = "<" THEN left.v < right.v
  ELSE IF operator = "<=" THEN left.v <= right.v
  ELSE IF operator = "!=" THEN Abs(left.v - right.v) > 0
  ELSE Abs(left.v - right.v) <= 0

shortestAngleDiffDeg(targetDeg, currentDeg) ==
  LET diff == normalizeHeadingDeg(targetDeg) - normalizeHeadingDeg(currentDeg)
  IN IF diff > 180 * Scale THEN diff - 360 * Scale
     ELSE IF diff <= -180 * Scale THEN diff + 360 * Scale
     ELSE diff

\* atan2(y, x) in degrees, to the resolution of CosTable: the first table
\* direction on which (x, y) has the largest projection.
Atan2Deg(y, x) ==
  LET FirstLargest(proj) ==
        CHOOSE a \in DOMAIN proj :
          \A b \in DOMAIN proj : proj[a] > proj[b] \/ (proj[a] = proj[b] /\ a <= b)
  IN FirstLargest([a \in {15 * k : k \in 0..239} |-> x * Cos4(a) + y * Sin4(a)]) * 1000

RECURSIVE evaluateNumericExpression(_, _)
evaluateNumericExpression(expression, sensors) ==
  IF expression.type = "NUMBER_LITERAL" THEN Num(expression.value)
  ELSE IF expression.type = "SENSOR" THEN sensors.values[expression.variable]
  ELSE
    LET \* the UNARY case, for the evaluated operand
        UnaryResult(operand) ==
          IF operand.kind = "null" THEN NullValue
          ELSE IF ~IsNum(operand) THEN NullValue
          ELSE Num(IF expression.operator = "-" THEN -operand.v ELSE operand.v)
        \* the BINARY case, for the evaluated operands
        BinaryResult(left, right) ==
          IF left.kind = "null" THEN NullValue
          ELSE IF right.kind = "null" THEN NullValue
          ELSE IF ~IsNum(left) \/ ~IsNum(right) THEN NullValue
          ELSE IF expression.operator = "+" THEN Num(left.v + right.v)
          ELSE IF expression.operator = "-" THEN Num(left.v - right.v)
          ELSE IF expression.operator = "*" THEN Num(RoundMulDiv(left.v, right.v, Scale))
          ELSE IF Abs(right.v) <= 0 THEN NullValue
          ELSE Num(Sign(right.v) * RoundMulDiv(left.v, Scale, Abs(right.v)))
        \* the FUNCTION case, for the evaluated arguments
        CallResult(resolvedArgs) ==
          IF \E i \in 1..Len(resolvedArgs) : ~IsNum(resolvedArgs[i]) THEN NullValue
          ELSE IF expression.name = "ABS" THEN Num(Abs(resolvedArgs[1].v))
          ELSE IF expression.name = "MIN" THEN Num(Min2(resolvedArgs[1].v, resolvedArgs[2].v))
          ELSE IF expression.name = "MAX" THEN Num(Max2(resolvedArgs[1].v, resolvedArgs[2].v))
          ELSE IF expression.name = "CLAMP"
          THEN Num(Min2(Max2(resolvedArgs[1].v, resolvedArgs[2].v), resolvedArgs[3].v))
          ELSE IF expression.name = "ATAN2"
          THEN Num(normalizeHeadingDeg(Atan2Deg(resolvedArgs[1].v, resolvedArgs[2].v)))
          ELSE IF expression.name = "ANGLE_DIFF"
          THEN Num(shortestAngleDiffDeg(resolvedArgs[1].v, resolvedArgs[2].v))
          ELSE Num(normalizeHeadingDeg(resolvedArgs[1].v))
    IN IF expression.type = "UNARY"
       THEN UnaryResult(evaluateNumericExpression(expression.operand, sensors))
       ELSE IF expression.type = "BINARY"
       THEN BinaryResult(evaluateNumericExpression(expression.left, sensors),
                         evaluateNumericExpression(expression.right, sensors))
       ELSE CallResult([i \in 1..Len(expression.args) |->
                          evaluateNumericExpression(expression.args[i], sensors)])

NoCondition == [type |-> "NONE"]

RECURSIVE conditionMatched(_, _)
conditionMatched(condition, sensors) ==
  IF condition.type = "NONE" THEN TRUE
  ELSE IF condition.type = "VISIBILITY" THEN
    (IF condition.visible THEN sensors.enemyVisible ELSE ~sensors.enemyVisible)
  ELSE IF condition.type = "NOT" THEN ~conditionMatched(condition.operand, sensors)
  ELSE IF condition.type = "LOGICAL" THEN
    (IF condition.operator = "AND"
     THEN conditionMatched(condition.left, sensors) /\ conditionMatched(condition.right, sensors)
     ELSE conditionMatched(condition.left, sensors) \/ conditionMatched(condition.right, sensors))
  ELSE
    LET Compared(leftValue, rightValue) ==
          IF leftValue.kind = "null" THEN FALSE
          ELSE IF rightValue.kind = "null" THEN FALSE
          ELSE compareNumbers(leftValue, condition.operator, rightValue)
    IN Compared(evaluateNumericExpression(condition.left, sensors),
                evaluateNumericExpression(condition.right, sensors))

\* ---------------------------------------------------------------- rule evaluation
neutralControls ==
  [throttle |-> 0, strafe |-> 0, turn |-> 0, fire |-> FALSE, boost |-> "NONE"]

\* applyRuleCommand keeping a field that an earlier rule already set
applyRuleCommandFirstWins(controls, command) ==
  IF command.type = "SET_CONTROL" THEN
    (IF command.field = "THROTTLE"
     THEN [controls EXCEPT !.throttle = IF @ # 0 THEN @ ELSE command.value]
     ELSE IF command.field = "STRAFE"
     THEN [controls EXCEPT !.strafe = IF @ # 0 THEN @ ELSE command.value]
     ELSE [controls EXCEPT !.turn = IF @ # 0 THEN @ ELSE command.value])
  ELSE IF command.type = "FIRE" THEN [controls EXCEPT !.fire = IF @ THEN @ ELSE command.enabled]
  ELSE [controls EXCEPT !.boost = IF @ # "NONE" THEN @ ELSE command.direction]

applyRuleCommand(controls, command) ==
  IF command.type = "SET_CONTROL" THEN
    (IF command.field = "THROTTLE" THEN [controls EXCEPT !.throttle = command.value]
     ELSE IF command.field = "STRAFE" THEN [controls EXCEPT !.strafe = command.value]
     ELSE [controls EXCEPT !.turn = command.value])
  ELSE IF command.type = "FIRE" THEN [controls EXCEPT !.fire = command.enabled]
  ELSE [controls EXCEPT !.boost = command.direction]

\* program.forEach of resolveControls, from rule i on
RECURSIVE ResolveFrom(_, _, _, _)
ResolveFrom(program, sensors, i, decision) ==
  IF i > Len(program) THEN decision
  ELSE ResolveFrom(program, sensors, i + 1,
         IF ~conditionMatched(program[i].condition, sensors) THEN decision
         ELSE [decision EXCEPT
                 !.matchedRuleLines = Append(@, program[i].line),
                 !.controls = applyRuleCommand(@, program[i].command)])

resolveControls(program, sensors) ==
  ResolveFrom(program, sensors, 1,
              [totalRules |-> Len(program), controls |-> neutralControls,
               matchedRuleLines |-> << >>])

\* ---------------------------------------------------------------- rotation and movement
\* hypot(a, b) rounded to the nearest unit
HypotRound(a, b) == (HypotFloor(2 * a, 2 * b) + 1) \div 2

\* FIRE_MOVEMENT_MULTIPLIER and FIRE_TURN_MULTIPLIER are both 0.5 = 1/FireDivisor
FireDivisor == 2

\* computeRotation: TURN_RATE_DEG_PER_SECOND / TARGET_FPS degrees per tick at
\* turn = 1, halved while firing; headings are in tenths of a degree.
computeRotation(actor, controls) ==
  LET turnDivisor == IF controls.fire THEN FireDivisor ELSE 1
      deltaDeci == RoundDiv(controls.turn * ((TURN_RATE_DEG_PER_SECOND * 10) \div TARGET_FPS),
                            Scale * turnDivisor)
  IN [actor |-> [actor EXCEPT !.heading = normalizeAngleRad(actor.heading + FullTurn + deltaDeci)],
      outcome |-> [deltaDeg |-> deltaDeci * 1000]]

\* common denominator of the three per-tile tick counts 8, 12, 16
MoveDenominator == 48

\* plannedDelta with the fire penalty left off a backward throttle
plannedDeltaBackwardUnslowed(actor, controls) ==
  LET speedDivisor == IF controls.fire THEN FireDivisor ELSE 1
      speedMultiplier == Scale \div speedDivisor
      den == MoveDenominator * Scale * speedDivisor
      backwardFactor == IF controls.throttle < 0 THEN speedDivisor ELSE 1
      Planned(numX, numY) ==
        IF ~actor.alive
        THEN [delta |-> [x |-> 0, y |-> 0], attempted |-> FALSE,
              speedMultiplier |-> speedMultiplier]
        ELSE [delta |-> [x |-> RoundDiv(numX, den), y |-> RoundDiv(numY, den)],
              attempted |-> ~HypotLeq(numX, numY, den \div 100),
              speedMultiplier |-> speedMultiplier]
      Along(forward, right, forwardTicks) ==
        Planned(forward.dx * controls.throttle * backwardFactor * (MoveDenominator \div forwardTicks)
                  + right.dx * controls.strafe * (MoveDenominator \div TICKS_PER_TILE.STRAFE),
                forward.dy * controls.throttle * backwardFactor * (MoveDenominator \div forwardTicks)
                  + right.dy * controls.strafe * (MoveDenominator \div TICKS_PER_TILE.STRAFE))
  IN Along(headingVector(actor.heading), rightVector(headingVector(actor.heading)),
           IF controls.throttle >= 0 THEN TICKS_PER_TILE.FORWARD ELSE TICKS_PER_TILE.BACKWARD)

plannedDelta(actor, controls) ==
  LET speedDivisor == IF controls.fire THEN FireDivisor ELSE 1
      speedMultiplier == Scale \div speedDivisor
      forwardTicks == IF controls.throttle >= 0 THEN TICKS_PER_TILE.FORWARD
                      ELSE TICKS_PER_TILE.BACKWARD
      den == MoveDenominator * Scale * speedDivisor
      \* (numX, numY) / den is the delta before rounding
      Planned(numX, numY) ==
        IF ~actor.alive
        THEN [delta |-> [x |-> 0, y |-> 0], attempted |-> FALSE,
              speedMultiplier |-> speedMultiplier]
        ELSE [delta |-> [x |-> RoundDiv(numX, den), y |-> RoundDiv(numY, den)],
              \* Math.hypot(deltaX, deltaY) > EPSILON = 1e-6 tile = den / 100 here
              attempted |-> ~HypotLeq(numX, numY, den \div 100),
              speedMultiplier |-> speedMultiplier]
      Along(forward, right) ==
        Planned(forward.dx * controls.throttle * (MoveDenominator \div forwardTicks)
                  + right.dx * controls.strafe * (MoveDenominator \div TICKS_PER_TILE.STRAFE),
                forward.dy * controls.throttle * (MoveDenominator \div forwardTicks)
                  + right.dy * controls.strafe * (MoveDenominator \div TICKS_PER_TILE.STRAFE))
  IN Along(headingVector(actor.heading), rightVector(headingVector(actor.heading)))

\* tickSideBoostState without the cap at SIDE_BOOST_ENERGY_MAX
tickSideBoostStateUncapped(actor) ==
  IF ~actor.alive THEN actor
  ELSE LET regen == (SIDE_BOOST_ENERGY_REGEN_PER_SECOND * Scale) \div TARGET_FPS
       IN [actor EXCEPT
             !.boostCooldownTicks = Max2(0, actor.boostCooldownTicks - 1),
             !.energy = actor.energy + regen]

\* tickSideBoostState adding a whole second of regeneration per tick
tickSideBoostStatePerSecond(actor) ==
  IF ~actor.alive THEN actor
  ELSE LET regen == SIDE_BOOST_ENERGY_REGEN_PER_SECOND * Scale
       IN [actor EXCEPT
             !.boostCooldownTicks = Max2(0, actor.boostCooldownTicks - 1),
             !.energy = Min2(SIDE_BOOST_ENERGY_MAX * Scale, actor.energy + regen)]

\* tickSideBoostState without the countdown of the cooldown
tickSideBoostStateCooldownHeld(actor) ==
  IF ~actor.alive THEN actor
  ELSE LET regen == (SIDE_BOOST_ENERGY_REGEN_PER_SECOND * Scale) \div TARGET_FPS
       IN [actor EXCEPT
             !.energy = Min2(SIDE_BOOST_ENERGY_MAX * Scale, actor.energy + regen)]

tickSideBoostState(actor) ==
  IF ~actor.alive THEN actor
  ELSE LET regen == (SIDE_BOOST_ENERGY_REGEN_PER_SECOND * Scale) \div TARGET_FPS
       IN [actor EXCEPT
             !.boostCooldownTicks = Max2(0, actor.boostCooldownTicks - 1),
             !.energy = Min2(SIDE_BOOST_ENERGY_MAX * Scale, actor.energy + regen)]

\* the ignition test without the cooldown
BoostIgnitesDuringCooldown(actor, controls) ==
  /\ controls.boost # "NONE"
  /\ actor.boostBurstTicksRemaining <= 0
  /\ actor.energy >= SIDE_BOOST_ENERGY_COST * Scale

\* the ignition test with the cost of a shot of the same tick set aside first
BoostIgnitesAfterShot(actor, controls) ==
  /\ controls.boost # "NONE"
  /\ actor.boostBurstTicksRemaining <= 0
  /\ actor.boostCooldownTicks = 0
  /\ actor.energy >= (SIDE_BOOST_ENERGY_COST
                        + (IF controls.fire THEN FIRE_ENERGY_COST ELSE 0)) * Scale

\* the ignition test of resolveSideBoost
BoostIgnites(actor, controls) ==
  /\ controls.boost # "NONE"
  /\ actor.boostBurstTicksRemaining <= 0
  /\ actor.boostCooldownTicks = 0
  /\ actor.energy >= SIDE_BOOST_ENERGY_COST * Scale

\* the ignition branch, with a request made during a burst taking over the
\* locked direction
IgniteSideBoostRelocking(actor, controls) ==
  IF BoostIgnites(actor, controls)
  THEN [actor EXCEPT
          !.energy = Max2(0, actor.energy - SIDE_BOOST_ENERGY_COST * Scale),
          !.boostCooldownTicks = SIDE_BOOST_COOLDOWN_TICKS,
          !.boostBurstTicksRemaining = SIDE_BOOST_BURST_TICKS,
          !.boostDirectionLocked = controls.boost]
  ELSE IF controls.boost # "NONE" /\ actor.boostBurstTicksRemaining > 0
  THEN [actor EXCEPT !.boostDirectionLocked = controls.boost]
  ELSE actor

\* the actor after the ignition branch of resolveSideBoost
IgniteSideBoost(actor, controls) ==
  IF BoostIgnites(actor, controls)
  THEN [actor EXCEPT
          !.energy = Max2(0, actor.energy - SIDE_BOOST_ENERGY_COST * Scale),
          !.boostCooldownTicks = SIDE_BOOST_COOLDOWN_TICKS,
          !.boostBurstTicksRemaining = SIDE_BOOST_BURST_TICKS,
          !.boostDirectionLocked = controls.boost]
  ELSE actor

resolveSideBoost(actor, controls, start, arenaSize) ==
  LET energyBefore == toFixed2(actor.energy)
      \* the return value when no burst tick is applied to r
      Idle(r) ==
        [actor |-> r,
         requested |-> controls.boost # "NONE", used |-> FALSE,
         direction |-> controls.boost,
         delta |-> [x |-> 0, y |-> 0], distance |-> 0, forceLevel |-> 0,
         burstTicksRemaining |-> r.boostBurstTicksRemaining,
         energyBefore |-> energyBefore, energyAfter |-> toFixed2(r.energy),
         cooldownRemaining |-> r.boostCooldownTicks,
         hasTrail |-> FALSE, trail |-> [from |-> start, to |-> start]]
      \* the return value of an active burst tick
      Active(burned, activeDirection, boostDelta, forceLevel) ==
        [actor |-> burned,
         requested |-> controls.boost # "NONE", used |-> TRUE,
         direction |-> activeDirection,
         delta |-> boostDelta,
         distance |-> HypotRound(boostDelta.x, boostDelta.y),
         forceLevel |-> forceLevel,
         burstTicksRemaining |-> burned.boostBurstTicksRemaining,
         energyBefore |-> energyBefore, energyAfter |-> toFixed2(burned.energy),
         cooldownRemaining |-> burned.boostCooldownTicks,
         hasTrail |-> TRUE,
         trail |-> [from |-> start,
                    to |-> clampToArena([x |-> start.x + boostDelta.x,
                                         y |-> start.y + boostDelta.y], arenaSize).clamped]]
      \* one force level of the sequence is consumed
      Burn(unlocked, remaining, activeDirection, right, sideSign, forceLevel) ==
        Active([unlocked EXCEPT
                  !.boostBurstTicksRemaining = remaining,
                  !.boostDirectionLocked = IF remaining = 0 THEN "NONE" ELSE @],
               activeDirection,
               [x |-> RoundDiv(right.dx * sideSign * forceLevel, TICKS_PER_TILE.STRAFE),
                y |-> RoundDiv(right.dy * sideSign * forceLevel, TICKS_PER_TILE.STRAFE)],
               forceLevel)
      Burst(unlocked, activeDirection, sequenceIndex) ==
        IF activeDirection = "NONE" THEN Idle(unlocked)
        ELSE Burn(unlocked,
                  Max2(0, unlocked.boostBurstTicksRemaining - 1),
                  activeDirection,
                  rightVector(headingVector(actor.heading)),
                  IF activeDirection = "RIGHT" THEN 1 ELSE -1,
                  IF sequenceIndex + 1 \in DOMAIN SIDE_BOOST_FORCE_SEQUENCE
                  THEN SIDE_BOOST_FORCE_SEQUENCE[sequenceIndex + 1]
                  ELSE unlocked.boostBurstTicksRemaining)
      Unlocked(unlocked) ==
        Burst(unlocked,
              IF unlocked.boostBurstTicksRemaining > 0 THEN unlocked.boostDirectionLocked
              ELSE "NONE",
              SIDE_BOOST_BURST_TICKS - unlocked.boostBurstTicksRemaining)
      \* a burst without a locked direction is dropped
      Ignited(ignited) ==
        Unlocked(IF ignited.boostBurstTicksRemaining > 0 /\ ignited.boostDirectionLocked = "NONE"
                 THEN [ignited EXCEPT !.boostBurstTicksRemaining = 0]
                 ELSE ignited)
  IN IF ~actor.alive THEN Idle(actor)
     ELSE Ignited(IgniteSideBoost(actor, controls))

\* the collision test against one radius instead of two
TooCloseOneRadius(p, q) == HypotLeq(p.x - q.x, p.y - q.y, ROBOT_COLLISION_RADIUS)

\* robots that never collide
TooCloseNever(p, q) == FALSE

\* separation <= ROBOT_COLLISION_RADIUS * 2
TooClose(p, q) == HypotLeq(p.x - q.x, p.y - q.y, ROBOT_COLLISION_RADIUS * 2)

MovementOutcome(start, final, plan, boost, attempted, blocked, proposal) ==
  [attempted |-> attempted,
   dx |-> final.x - start.x,
   dy |-> final.y - start.y,
   distance |-> HypotRound(final.x - start.x, final.y - start.y),
   blockedByRobot |-> blocked,
   hitBoundary |-> proposal.hitBoundary,
   speedMultiplier |-> plan.speedMultiplier,
   boostRequested |-> boost.requested,
   boostUsed |-> boost.used,
   boostDirection |-> boost.direction,
   boostDistance |-> boost.distance,
   boostForceLevel |-> boost.forceLevel,
   boostBurstTicksRemaining |-> boost.burstTicksRemaining,
   energyBefore |-> boost.energyBefore,
   energyAfter |-> boost.energyAfter,
   boostCooldownRemaining |-> boost.cooldownRemaining]

applyMovement(robotA, robotB, controlA, controlB, arenaSize) ==
  LET startA == [x |-> robotA.x, y |-> robotA.y]
      startB == [x |-> robotB.x, y |-> robotB.y]
      \* start + planned delta + boost delta, clamped
      Proposal(start, plan, boost) ==
        clampToArena([x |-> start.x + plan.delta.x + boost.delta.x,
                      y |-> start.y + plan.delta.y + boost.delta.y], arenaSize)
      Moved(start, final, plan, boost, attempted, blocked, proposal) ==
        [robot |-> [boost.actor EXCEPT !.x = final.x, !.y = final.y],
         outcome |-> MovementOutcome(start, final, plan, boost, attempted, blocked, proposal)]
      Settle(start, plan, boost, proposal, blocked) ==
        Moved(start, IF blocked THEN start ELSE proposal.clamped, plan, boost,
              plan.attempted \/ boost.used, blocked, proposal)
      Both(movedA, movedB) ==
        [robotA |-> movedA.robot,
         robotB |-> movedB.robot,
         outcomes |-> [robotA |-> movedA.outcome, robotB |-> movedB.outcome]]
      \* a collision reverts each robot that attempted to move
      Collide(planA, planB, boostA, boostB, proposalA, proposalB, collide) ==
        Both(Settle(startA, planA, boostA, proposalA,
                    collide /\ (planA.attempted \/ boostA.used)),
             Settle(startB, planB, boostB, proposalB,
                    collide /\ (planB.attempted \/ boostB.used)))
      Proposed(planA, planB, boostA, boostB, proposalA, proposalB) ==
        Collide(planA, planB, boostA, boostB, proposalA, proposalB,
                robotA.alive /\ robotB.alive /\ TooClose(proposalA.clamped, proposalB.clamped))
      Planned(planA, planB, boostA, boostB) ==
        Proposed(planA, planB, boostA, boostB,
                 Proposal(startA, planA, boostA), Proposal(startB, planB, boostB))
  IN Planned(plannedDelta(robotA, controlA), plannedDelta(robotB, controlB),
             resolveSideBoost(robotA, controlA, startA, arenaSize),
             resolveSideBoost(robotB, controlB, startB, arenaSize))

\* ---------------------------------------------------------------- firing
\* tickCooldown leaving the cooldown as it is
tickCooldownHeld(actor) == actor

tickCooldown(actor) ==
  [actor EXCEPT !.fireCooldownTicks = Max2(0, actor.fireCooldownTicks - 1)]

NoProjectile ==
  [from |-> [x |-> 0, y |-> 0], to |-> [x |-> 0, y |-> 0], direction |-> "E",
   range |-> 0, hit |-> FALSE, targetRobotId |-> "none"]

\* an attempt that fires whatever energy the shooter has left
FireAttemptUnpaid(shooter, targetId, control) ==
  LET fired == [shooter EXCEPT
                  !.energy = Max2(0, shooter.energy - FIRE_ENERGY_COST * Scale),
                  !.fireCooldownTicks = FIRE_COOLDOWN_TICKS]
      outcome == [triggerHeld |-> control.fire,
                  shotFired |-> shooter.alive /\ control.fire /\ shooter.fireCooldownTicks <= 0,
                  cooldownRemaining |-> shooter.fireCooldownTicks,
                  blockedByEnergy |-> FALSE,
                  energyBefore |-> toFixed2(shooter.energy),
                  energyAfter |-> toFixed2(shooter.energy),
                  hit |-> FALSE,
                  hasProjectile |-> FALSE,
                  projectile |-> NoProjectile]
  IN IF ~outcome.shotFired
     THEN [shooter |-> shooter, outcome |-> outcome, spawned |-> << >>]
     ELSE [shooter |-> fired,
           outcome |-> [outcome EXCEPT !.cooldownRemaining = fired.fireCooldownTicks,
                                       !.energyAfter = toFixed2(fired.energy)],
           spawned |-> <<[shooterRobotId |-> shooter.id,
                          targetRobotId |-> targetId,
                          position |-> [x |-> shooter.x, y |-> shooter.y],
                          direction |-> headingVector(shooter.heading),
                          directionCardinal |-> directionFromHeading(shooter.heading),
                          traveledDistance |-> 0,
                          maxRange |-> SHOT_RANGE * Scale]>>]

\* one entry of `attempts` in resolveFiring: the shooter after the attempt,
\* its outcome and the projectiles it spawned
FireAttempt(shooter, targetId, control) ==
  LET base == [triggerHeld |-> control.fire,
               shotFired |-> FALSE,
               cooldownRemaining |-> shooter.fireCooldownTicks,
               blockedByEnergy |-> FALSE,
               energyBefore |-> toFixed2(shooter.energy),
               energyAfter |-> toFixed2(shooter.energy),
               hit |-> FALSE,
               hasProjectile |-> FALSE,
               projectile |-> NoProjectile]
      fired == [shooter EXCEPT
                  !.energy = Max2(0, shooter.energy - FIRE_ENERGY_COST * Scale),
                  !.fireCooldownTicks = FIRE_COOLDOWN_TICKS]
  IN IF ~shooter.alive \/ ~control.fire
     THEN [shooter |-> shooter, outcome |-> base, spawned |-> << >>]
     ELSE IF shooter.fireCooldownTicks > 0
     THEN [shooter |-> shooter, outcome |-> base, spawned |-> << >>]
     ELSE IF shooter.energy < FIRE_ENERGY_COST * Scale
     THEN [shooter |-> shooter,
           outcome |-> [base EXCEPT !.blockedByEnergy = TRUE],
           spawned |-> << >>]
     ELSE [shooter |-> fired,
           outcome |-> [base EXCEPT !.shotFired = TRUE,
                                    !.cooldownRemaining = fired.fireCooldownTicks,
                                    !.energyAfter = toFixed2(fired.energy)],
           spawned |-> <<[shooterRobotId |-> shooter.id,
                          targetRobotId |-> targetId,
                          position |-> [x |-> shooter.x, y |-> shooter.y],
                          direction |-> headingVector(shooter.heading),
                          directionCardinal |-> directionFromHeading(shooter.heading),
                          traveledDistance |-> 0,
                          maxRange |-> SHOT_RANGE * Scale]>>]

resolveFiring(robotA, robotB, controlA, controlB) ==
  LET Attempts(attemptA, attemptB) ==
        [robotA |-> attemptA.shooter,
         robotB |-> attemptB.shooter,
         outcomes |-> [robotA |-> attemptA.outcome, robotB |-> attemptB.outcome],
         spawnedProjectiles |-> attemptA.spawned \o attemptB.spawned]
  IN Attempts(
       FireAttempt(IF robotA.alive THEN tickCooldown(robotA) ELSE robotA, robotB.id, controlA),
       FireAttempt(IF robotB.alive THEN tickCooldown(robotB) ELSE robotB, robotA.id, controlB))

\* ---------------------------------------------------------------- projectiles
\* pointToSegmentDistance(point, start, end) <= radius, decided exactly:
\* the nearest point of the segment is an end point when the projection
\* falls outside it, and the foot of the perpendicular otherwise.
\* the distance to the line through the segment instead of the segment
pointToLineWithin(point, start, end, radius) ==
  Abs((point.x - start.x) * (end.y - start.y) - (point.y - start.y) * (end.x - start.x))
    <= radius * HypotFloor(end.x - start.x, end.y - start.y)

pointToSegmentWithin(point, start, end, radius) ==
  LET segmentDx == end.x - start.x
      segmentDy == end.y - start.y
      lengthSquared == segmentDx * segmentDx + segmentDy * segmentDy
      px == point.x - start.x
      py == point.y - start.y
      dot == px * segmentDx + py * segmentDy
      cross == Abs(px * segmentDy - py * segmentDx)
      length == HypotFloor(segmentDx, segmentDy)
      sq == MulDivMod(cross, cross, radius * radius)
  IN IF lengthSquared <= 100 THEN HypotLeq(px, py, radius)
     ELSE IF dot <= 0 THEN HypotLeq(px, py, radius)
     ELSE IF dot >= lengthSquared THEN HypotLeq(point.x - end.x, point.y - end.y, radius)
     ELSE IF cross >= radius * (length + 1) THEN FALSE
     ELSE sq[1] < lengthSquared \/ (sq[1] = lengthSquared /\ sq[2] = 0)

\* the results of advanceProjectiles before the first projectile; `index` is
\* the position forEach has reached in the projectile list
EmptyAdvance ==
  [index |-> 1,
   traces |-> << >>,
   traceByShooter |-> [robotA |-> NoProjectile, robotB |-> NoProjectile],
   hasTrace |-> [robotA |-> FALSE, robotB |-> FALSE],
   hitByShooter |-> [robotA |-> FALSE, robotB |-> FALSE],
   pendingKills |-> {},
   nextProjectiles |-> << >>]

\* the slot ("robotA" or "robotB") of the robot with this id; findRobotById
SlotOf(robotA, robotB, robotId) ==
  IF robotA.id = robotId THEN "robotA"
  ELSE IF robotB.id = robotId THEN "robotB"
  ELSE "none"

\* the body of projectiles.forEach in advanceProjectiles
AdvanceOne(acc, projectile, robotA, robotB, arenaSize) ==
  LET maxStepDistance == Scale \div PROJECTILE_TICKS_PER_TILE
      remainingRange == projectile.maxRange - projectile.traveledDistance
      start == projectile.position
      targetSlot == SlotOf(robotA, robotB, projectile.targetRobotId)
      target == IF targetSlot = "robotA" THEN robotA ELSE robotB
      shooterSlot == SlotOf(robotA, robotB, projectile.shooterRobotId)
      \* the projectile is dropped on a hit, at the end of its range or at
      \* the wall, and kept otherwise
      Traced(traced, end, hit, traveledDistance, exhaustedByWall) ==
        IF hit THEN traced
        ELSE IF traveledDistance >= projectile.maxRange \/ exhaustedByWall THEN traced
        ELSE [traced EXCEPT
                !.nextProjectiles = Append(@, [projectile EXCEPT
                                                 !.position = end,
                                                 !.traveledDistance = traveledDistance])]
      Record(trace, end, hit, stepDistance, wallHit) ==
        Traced([acc EXCEPT
                  !.traces = Append(@, trace),
                  !.traceByShooter[shooterSlot] = IF acc.hasTrace[shooterSlot] THEN @ ELSE trace,
                  !.hasTrace[shooterSlot] = TRUE,
                  !.hitByShooter[shooterSlot] = @ \/ hit,
                  !.pendingKills = IF hit THEN @ \cup {target.id} ELSE @],
               end, hit,
               projectile.traveledDistance + stepDistance,
               wallHit.distance <= stepDistance)
      Tested(end, hit, stepDistance, wallHit) ==
        Record([from |-> start,
                to |-> IF hit THEN [x |-> target.x, y |-> target.y] ELSE end,
                direction |-> projectile.directionCardinal,
                range |-> projectile.maxRange,
                hit |-> hit,
                targetRobotId |-> IF hit THEN target.id ELSE "none"],
               end, hit, stepDistance, wallHit)
      Toward(end, stepDistance, wallHit) ==
        Tested(end,
               /\ targetSlot # "none"
               /\ target.alive
               /\ target.id \notin acc.pendingKills
               /\ pointToSegmentWithin([x |-> target.x, y |-> target.y], start, end,
                                       SHOT_HIT_RADIUS),
               stepDistance, wallHit)
      Step(stepDistance, wallHit) ==
        IF remainingRange <= 0 THEN acc
        ELSE IF stepDistance <= 0 THEN acc
        ELSE Toward([x |-> RoundDiv(start.x * Scale + projectile.direction.dx * stepDistance,
                                    Scale),
                     y |-> RoundDiv(start.y * Scale + projectile.direction.dy * stepDistance,
                                    Scale)],
                    stepDistance, wallHit)
      Within(wallHit) ==
        Step(Min2(Min2(maxStepDistance, remainingRange), Max2(0, wallHit.distance)), wallHit)
  IN Within(buildWallRayHit(start, projectile.direction, arenaSize))

RECURSIVE AdvanceFrom(_, _, _, _, _)
AdvanceFrom(acc, projectiles, robotA, robotB, arenaSize) ==
  IF acc.index > Len(projectiles) THEN acc
  ELSE AdvanceFrom([AdvanceOne(acc, projectiles[acc.index], robotA, robotB, arenaSize)
                      EXCEPT !.index = acc.index + 1],
                   projectiles, robotA, robotB, arenaSize)

\* the projectiles spawned in this tick wait for the next tick
advanceProjectilesInFlight(projectiles, robotA, robotB, arenaSize) ==
  LET Kept(advance, fresh) == [advance EXCEPT !.nextProjectiles = @ \o fresh]
  IN Kept(AdvanceFrom(EmptyAdvance, SelectSeq(projectiles, LAMBDA p : p.traveledDistance > 0),
                      robotA, robotB, arenaSize),
          SelectSeq(projectiles, LAMBDA p : p.traveledDistance = 0))

\* the travelled distance of a projectile is not added up, so that its range
\* never ends its flight
advanceProjectilesUnaged(projectiles, robotA, robotB, arenaSize) ==
  LET Unaged(advance) ==
        [advance EXCEPT !.nextProjectiles =
           [j \in DOMAIN @ |-> [@[j] EXCEPT !.traveledDistance = 0]]]
  IN Unaged(AdvanceFrom(EmptyAdvance, projectiles, robotA, robotB, arenaSize))

advanceProjectiles(projectiles, robotA, robotB, arenaSize) ==
  AdvanceFrom(EmptyAdvance, projectiles, robotA, robotB, arenaSize)

\* ---------------------------------------------------------------- simulateBattle
VARIABLES
  arenaSize,          \* simulateBattle's arenaSize argument
  tickLimit,          \* resolveMaxTicks({maxTicks, maxTurns})
  programs,           \* parsedProgram of robotA and robotB
  robots,             \* the RobotStates a and b
  activeProjectiles,  \* the in-flight projectiles
  tick,               \* number of completed loop iterations
  ticks,              \* the TickLog list
  pc,                 \* "request", "rejected": the driver; "loop", "break" (left the
                      \* loop by break), "done": simulateBattle; "resolve",
                      \* "resolved": a call of resolveControls on its own; "parse",
                      \* "parsed": a call of parseRobotScript on its own
  result,             \* the returned BattleSimulation, once pc = "done"; how
                      \* parseRobotScript ended, once pc = "parsed"
  request,            \* the payload handed to the driver; the scriptText handed to
                      \* parseRobotScript
  decision,           \* the latest ControlDecision of each robot
  locals,             \* the local values of the latest iteration of the tick loop
  store               \* the files of the storage bucket and the documents of the
                      \* "robots" collection written so far

Slots == {"robotA", "robotB"}
Other(slot) == IF slot = "robotA" THEN "robotB" ELSE "robotA"

\* ids given by previewRobotDuel; runBattle passes two distinct document ids
RobotIdOf == [robotA |-> "candidate", robotB |-> "opponent"]

buildRobotState(robotId, startX, startY, startDirection) ==
  [id |-> robotId,
   x |-> startX,
   y |-> startY,
   direction |-> startDirection,
   heading |-> headingByDirection(startDirection),
   alive |-> TRUE,
   fireCooldownTicks |-> 0,
   energy |-> SIDE_BOOST_ENERGY_MAX * Scale,
   boostCooldownTicks |-> 0,
   boostBurstTicksRemaining |-> 0,
   boostDirectionLocked |-> "NONE",
   enemyMemory |-> InitialEnemyMemory]

snapshotRobot(robot) ==
  [id |-> robot.id,
   x |-> robot.x,
   y |-> robot.y,
   direction |-> directionFromHeading(robot.heading),
   angleDeg |-> normalizeAngleRad(robot.heading) * 1000,
   alive |-> robot.alive,
   energy |-> toFixed2(robot.energy),
   boostCooldownTicks |-> robot.boostCooldownTicks]

snapshotBattle(robotA, robotB) ==
  [robotA |-> snapshotRobot(robotA), robotB |-> snapshotRobot(robotB)]

\* computeWinner not looking at the second robot when the first one is alive
computeWinnerFirstAlive(robotA, robotB) ==
  IF robotA.alive THEN robotA.id
  ELSE IF robotB.alive THEN robotB.id
  ELSE "null"

computeWinner(robotA, robotB) ==
  IF robotA.alive /\ ~robotB.alive THEN robotA.id
  ELSE IF ~robotA.alive /\ robotB.alive THEN robotB.id
  ELSE "null"

\* the robots as simulateBattle has them when the loop starts
InitialRobots(robotAId, robotBId, size) ==
  LET a == buildRobotState(robotAId, 0, 0, "E")
      b == buildRobotState(robotBId, (size - 1) * Scale, (size - 1) * Scale, "W")
  IN [robotA |-> updateEnemyMemory(a, b, buildPerception(a, b, size)),
      robotB |-> updateEnemyMemory(b, a, buildPerception(b, a, size))]

\* the kill phase leaving every robot alive
AfterKillsSparing(robot, pendingKills) ==
  [robot EXCEPT !.direction = directionFromHeading(robot.heading)]

\* the kills applied one after the other, the first kill ending the tick: of
\* two robots hit in the same tick only the one hit first dies
AfterKillsFirstOnly(robot, pendingKills) ==
  [robot EXCEPT
     !.alive = IF robot.id \in pendingKills
                  /\ (Cardinality(pendingKills) = 1 \/ robot.id = "opponent")
               THEN FALSE ELSE @,
     !.direction = directionFromHeading(robot.heading)]

\* pendingKills applied, and the direction refreshed from the heading
AfterKills(robot, pendingKills) ==
  [robot EXCEPT
     !.alive = IF robot.id \in pendingKills THEN FALSE ELSE @,
     !.direction = directionFromHeading(robot.heading)]

\* One iteration of the tick loop: the robots, projectiles, decisions and
\* TickLog after it.  The local values of the loop body are gathered in a
\* record t, each phase adding the values it computes; the phases are listed
\* from the last to the first.
TickStep(a0, b0, projectiles, size, tickNo) ==
  LET FireOutcome(outcome, hasTrace, trace, hit) ==
        [outcome EXCEPT
           !.hasProjectile = hasTrace,
           !.projectile = IF hasTrace THEN trace ELSE @,
           !.hit = hit]
      Action(t, slot) ==
        [matchedRuleLines |-> t.decisions[slot].matchedRuleLines,
         controls |-> t.controls[slot],
         movement |-> t.moved.outcomes[slot],
         rotation |-> IF slot = "robotA" THEN t.rotA.outcome ELSE t.rotB.outcome,
         firing |-> FireOutcome(t.fireResolution.outcomes[slot],
                                t.projectileAdvance.hasTrace[slot],
                                t.projectileAdvance.traceByShooter[slot],
                                t.projectileAdvance.hitByShooter[slot])]
      TickLog(t) ==
        [tick |-> tickNo,
         startState |-> snapshotBattle(t.a1, t.b1),
         startPerception |-> t.startPerception,
         actions |-> [slot \in {sl \in Slots : IF sl = "robotA" THEN t.a1.alive
                                               ELSE t.b1.alive} |-> Action(t, slot)],
         projectiles |-> t.projectileAdvance.traces,
         endState |-> snapshotBattle(t.a2, t.b2),
         endPerception |-> t.endPerception]
      \* updateEnemyMemory and ticks.push
      Logged(t) ==
        [robotA |-> updateEnemyMemory(t.a2, t.b2, t.endPerception.robotA),
         robotB |-> updateEnemyMemory(t.b2, t.a2, t.endPerception.robotB),
         activeProjectiles |-> t.projectileAdvance.nextProjectiles,
         decisions |-> t.decisions,
         tickLog |-> TickLog(t),
         locals |-> t]
      Ended(t) ==
        Logged(t @@ [endPerception |-> [robotA |-> buildPerception(t.a2, t.b2, size),
                                        robotB |-> buildPerception(t.b2, t.a2, size)]])
      Killed(t) ==
        Ended(t @@ [a2 |-> AfterKills(t.fireResolution.robotA, t.projectileAdvance.pendingKills),
                    b2 |-> AfterKills(t.fireResolution.robotB, t.projectileAdvance.pendingKills)])
      Advanced(t) ==
        Killed(t @@ [projectileAdvance |->
                       advanceProjectiles(projectiles \o t.fireResolution.spawnedProjectiles,
                                          t.fireResolution.robotA, t.fireResolution.robotB,
                                          size)])
      Fired(t) ==
        Advanced(t @@ [fireResolution |-> resolveFiring(t.moved.robotA, t.moved.robotB,
                                                        t.controls.robotA, t.controls.robotB)])
      Moved(t) ==
        Fired(t @@ [moved |-> applyMovement(t.rotA.actor, t.rotB.actor,
                                            t.controls.robotA, t.controls.robotB, size)])
      Rotated(t) ==
        Moved(t @@ [rotA |-> IF t.a1.alive THEN computeRotation(t.a1, t.controls.robotA)
                             ELSE [actor |-> t.a1, outcome |-> [deltaDeg |-> 0]],
                    rotB |-> IF t.b1.alive THEN computeRotation(t.b1, t.controls.robotB)
                             ELSE [actor |-> t.b1, outcome |-> [deltaDeg |-> 0]]])
      \* a robot that is dead at the start of the tick gets the neutral controls
      Controlled(t) ==
        Rotated(t @@ [controls |->
                        [robotA |-> IF t.a1.alive THEN t.decisions.robotA.controls
                                    ELSE neutralControls,
                         robotB |-> IF t.b1.alive THEN t.decisions.robotB.controls
                                    ELSE neutralControls]])
      Decided(t) ==
        Controlled(t @@ [decisions |->
          [robotA |-> resolveControls(programs.robotA,
                        buildSensorContext(t.a1, t.b1, t.startPerception.robotA, size)),
           robotB |-> resolveControls(programs.robotB,
                        buildSensorContext(t.b1, t.a1, t.startPerception.robotB, size))]])
      Perceived(t) ==
        Decided(t @@ [startPerception |-> [robotA |-> buildPerception(t.a1, t.b1, size),
                                           robotB |-> buildPerception(t.b1, t.a1, size)]])
  IN Perceived([a1 |-> tickSideBoostState(a0), b1 |-> tickSideBoostState(b0)])

\* ---------------------------------------------------------------- replay
ReplayFramesPerTickTwo == 1 + 1
REPLAY_FRAMES_PER_TICK == 1

\* progress and the eased progress are in units of 1/Scale
lerp(start, end, progress) == start + RoundMulDiv(end - start, progress, Scale)

smoothStep(progress) ==
  IF progress <= 0 THEN 0
  ELSE IF progress >= Scale THEN Scale
  ELSE RoundMulDiv(RoundMulDiv(progress, progress, Scale), 3 * Scale - 2 * progress, Scale)

\* angles in units of 1/Scale degree
interpolateAngleDeg(startDeg, endDeg, progress) ==
  LET Turned(normalizedDelta) ==
        (startDeg + RoundMulDiv(normalizedDelta, progress, Scale)) % (360 * Scale)
  IN Turned(((endDeg - startDeg + 540 * Scale) % (360 * Scale)) - 180 * Scale)

directionAtProgress(start, end, progress) ==
  IF start = end THEN start
  ELSE IF progress < Scale \div 2 THEN start ELSE end

interpolateRobotSnapshot(start, end, progress) ==
  LET Eased(eased) ==
        [id |-> start.id,
         x |-> lerp(start.x, end.x, eased),
         y |-> lerp(start.y, end.y, eased),
         direction |-> directionAtProgress(start.direction, end.direction, eased),
         angleDeg |-> toFixed2(interpolateAngleDeg(start.angleDeg, end.angleDeg, eased)),
         alive |-> IF eased < Scale THEN start.alive ELSE end.alive,
         energy |-> toFixed2(lerp(start.energy, end.energy, eased)),
         boostCooldownTicks |->
           RoundDiv(lerp(start.boostCooldownTicks * Scale, end.boostCooldownTicks * Scale, eased),
                    Scale)]
  IN Eased(smoothStep(progress))

interpolateBattleSnapshot(start, end, progress) ==
  [robotA |-> interpolateRobotSnapshot(start.robotA, end.robotA, progress),
   robotB |-> interpolateRobotSnapshot(start.robotB, end.robotB, progress)]

\* the frames as a sequence: frames[1] is the frame with index 0.  A frame's
\* boostEffects and actions are kept per robot, without the names and trails.
buildReplayFrames(initialState, tickLogs) ==
  LET Frame(tickLog, index, sub) ==
        [index |-> index,
         timestampMs |-> RoundDiv(((tickLog.tick - 1) * REPLAY_FRAMES_PER_TICK + sub) * 1000,
                                  TARGET_FPS * REPLAY_FRAMES_PER_TICK),
         tick |-> tickLog.tick,
         state |-> interpolateBattleSnapshot(tickLog.startState, tickLog.endState,
                                             RoundDiv(sub * Scale, REPLAY_FRAMES_PER_TICK)),
         projectiles |-> IF sub = REPLAY_FRAMES_PER_TICK THEN tickLog.projectiles ELSE << >>,
         boostEffects |->
           IF sub = REPLAY_FRAMES_PER_TICK
           THEN [slot \in {sl \in DOMAIN tickLog.actions :
                             /\ tickLog.actions[sl].movement.boostUsed
                             /\ tickLog.actions[sl].movement.boostDirection # "NONE"} |->
                   [direction |-> tickLog.actions[slot].movement.boostDirection]]
           ELSE << >>,
         actions |->
           IF sub = REPLAY_FRAMES_PER_TICK
           THEN [slot \in DOMAIN tickLog.actions |->
                   [boostUsed |-> tickLog.actions[slot].movement.boostUsed,
                    boostDirection |-> tickLog.actions[slot].movement.boostDirection]]
           ELSE << >>]
  IN <<[index |-> 0,
        timestampMs |-> 0,
        tick |-> 0,
        state |-> interpolateBattleSnapshot(initialState, initialState, Scale),
        projectiles |-> << >>,
        boostEffects |-> << >>,
        actions |-> << >>]>>
     \o [j \in 1..(Len(tickLogs) * REPLAY_FRAMES_PER_TICK) |->
          Frame(tickLogs[((j - 1) \div REPLAY_FRAMES_PER_TICK) + 1], j,
                ((j - 1) % REPLAY_FRAMES_PER_TICK) + 1)]

\* before simulateBattle has returned
NoResult ==
  [status |-> "none", winnerRobotId |-> "null", maxTicks |-> 0, ticks |-> 0,
   replayFrames |-> << >>,
   finalState |-> snapshotBattle(buildRobotState("", 0, 0, "E"), buildRobotState("", 0, 0, "W"))]

\* before resolveControls has run
NoDecision ==
  [slot \in Slots |-> [totalRules |-> 0, controls |-> neutralControls, matchedRuleLines |-> << >>]]

\* before the first iteration of the tick loop
NoLocals == [a1 |-> "none"]

\* nothing written yet
NoStore == [files |-> {}, robots |-> {}]

\* ---------------------------------------------------------------- programs
\* Parsed rules as parseRobotScript returns them (ScriptAction).
Rule(line, condition, command) ==
  [type |-> "RULE", line |-> line, condition |-> condition, command |-> command]
SetControl(field, value) == [type |-> "SET_CONTROL", field |-> field, value |-> value]
Fire(enabled) == [type |-> "FIRE", enabled |-> enabled]
Boost(direction) == [type |-> "BOOST", direction |-> direction]
Visibility(visible) == [type |-> "VISIBILITY", visible |-> visible]
Compare(left, operator, right) ==
  [type |-> "COMPARE", left |-> left, operator |-> operator, right |-> right]
Logical(operator, left, right) ==
  [type |-> "LOGICAL", operator |-> operator, left |-> left, right |-> right]
Not(operand) == [type |-> "NOT", operand |-> operand]
Literal(value) == [type |-> "NUMBER_LITERAL", value |-> value]
Sensor(variable) == [type |-> "SENSOR", variable |-> variable]
Unary(operator, operand) == [type |-> "UNARY", operator |-> operator, operand |-> operand]
Binary(operator, left, right) ==
  [type |-> "BINARY", operator |-> operator, left |-> left, right |-> right]
Function(name, args) == [type |-> "FUNCTION", name |-> name, args |-> args]

Deg(d) == Literal(d * Scale)

\* SET THROTTLE 0
IdleProgram == <<Rule(1, NoCondition, SetControl("THROTTLE", 0))>>

\* FIRE ON
GunnerProgram == <<Rule(1, NoCondition, Fire(TRUE))>>

\* BOOST RIGHT / IF BOOST_COOLDOWN > 5 THEN BOOST LEFT / IF SELF_ENERGY < 50 THEN FIRE ON
BoosterProgram ==
  <<Rule(1, NoCondition, Boost("RIGHT")),
    Rule(2, Compare(Sensor("BOOST_COOLDOWN"), ">", Literal(5 * Scale)), Boost("LEFT")),
    Rule(3, Compare(Sensor("SELF_ENERGY"), "<", Literal(50 * Scale)), Fire(TRUE))>>

\* BOOST LEFT / FIRE ON / SET STRAFE 0.5
BoostGunnerProgram ==
  <<Rule(1, NoCondition, Boost("LEFT")),
    Rule(2, NoCondition, Fire(TRUE)),
    Rule(3, NoCondition, SetControl("STRAFE", Scale \div 2))>>

\* SET THROTTLE -1 / SET STRAFE -1
RetreatProgram ==
  <<Rule(1, NoCondition, SetControl("THROTTLE", -Scale)),
    Rule(2, NoCondition, SetControl("STRAFE", -Scale))>>

\* Turn 45 degrees to the right of the start heading (East or West), then
\* drive along the diagonal.
ChaserProgram ==
  <<Rule(1, Compare(Sensor("SELF_HEADING"), "<", Deg(42)), SetControl("TURN", Scale)),
    Rule(2, Compare(Sensor("SELF_HEADING"), "==", Deg(42)), SetControl("TURN", Scale \div 2)),
    Rule(3, Logical("AND", Compare(Sensor("SELF_HEADING"), ">=", Deg(180)),
                           Compare(Sensor("SELF_HEADING"), "<", Deg(222))),
            SetControl("TURN", Scale)),
    Rule(4, Compare(Sensor("SELF_HEADING"), "==", Deg(222)), SetControl("TURN", Scale \div 2)),
    Rule(5, Logical("OR", Compare(Sensor("SELF_HEADING"), "==", Deg(45)),
                          Compare(Sensor("SELF_HEADING"), "==", Deg(225))),
            SetControl("THROTTLE", Scale))>>

\* The chaser, firing once the enemy is within 4 tiles.
HunterProgram ==
  ChaserProgram \o
  <<Rule(6, Compare(Sensor("ENEMY_DISTANCE"), "<=", Literal(4 * Scale)), Fire(TRUE))>>

\* SET TURN 1 / SET THROTTLE 1 / FIRE ON
SweeperProgram ==
  <<Rule(1, NoCondition, SetControl("TURN", Scale)),
    Rule(2, NoCondition, SetControl("THROTTLE", Scale)),
    Rule(3, NoCondition, Fire(TRUE))>>

Programs ==
  {IdleProgram, GunnerProgram, BoosterProgram, BoostGunnerProgram, RetreatProgram,
   ChaserProgram, HunterProgram, SweeperProgram}

\* ---------------------------------------------------------------- script text
\* A JavaScript string is the sequence of its characters, each a string of
\* length one.
Str(chars) == [kind |-> "string", chars |-> chars]

DigitChars == <<"0", "1", "2", "3", "4", "5", "6", "7", "8", "9">>
LowerCaseChars ==
  <<"a", "b", "c", "d", "e", "f", "g", "h", "i", "j", "k", "l", "m",
    "n", "o", "p", "q", "r", "s", "t", "u", "v", "w", "x", "y", "z">>
UpperCaseChars ==
  <<"A", "B", "C", "D", "E", "F", "G", "H", "I", "J", "K", "L", "M",
    "N", "O", "P", "Q", "R", "S", "T", "U", "V", "W", "X", "Y", "Z">>

\* the character classes of the regular expressions: \s, \d, [A-Za-z_], \w
IsWhitespace(char) == char \in {" ", "\t", "\r", "\n"}
IsDigit(char) == \E d \in 1..10 : DigitChars[d] = char
IsIdentifierStart(char) ==
  \/ char = "_"
  \/ \E l \in 1..26 : LowerCaseChars[l] = char \/ UpperCaseChars[l] = char
IsWordChar(char) == IsIdentifierStart(char) \/ IsDigit(char)

\* String.prototype.toUpperCase
toUpperCase(text) ==
  [i \in 1..Len(text) |->
     IF \E l \in 1..26 : LowerCaseChars[l] = text[i]
       THEN UpperCaseChars[CHOOSE l \in 1..26 : LowerCaseChars[l] = text[i]]
       ELSE text[i]]

\* String.prototype.trim
trim(text) ==
  LET inked == {i \in 1..Len(text) : ~IsWhitespace(text[i])}
  IN IF inked = {} THEN << >>
     ELSE SubSeq(text, CHOOSE i \in inked : \A j \in inked : i <= j,
                       CHOOSE i \in inked : \A j \in inked : j <= i)

\* String.prototype.slice(from), with from counted from 0 as in the code
slice(text, from) == SubSeq(text, from + 1, Len(text))

\* the characters of a text as one word, to compare it with a keyword
RECURSIVE Word(_)
Word(text) == IF text = << >> THEN "" ELSE text[1] \o Word(Tail(text))

\* String.prototype.split(/\s+/) on a trimmed text, and the same followed by
\* filter(Boolean): the maximal runs of characters that are not whitespace
splitWhitespace(text) ==
  LET starts == {i \in 1..Len(text) :
                   ~IsWhitespace(text[i]) /\ (i = 1 \/ IsWhitespace(text[i - 1]))}
      endOf(i) == CHOOSE j \in i..Len(text) :
                    /\ \A k \in i..j : ~IsWhitespace(text[k])
                    /\ (j = Len(text) \/ IsWhitespace(text[j + 1]))
      nth(n) == CHOOSE i \in starts : Cardinality({k \in starts : k <= i}) = n
  IN [n \in 1..Cardinality(starts) |-> SubSeq(text, nth(n), endOf(nth(n)))]

\* String.prototype.split(/\r?\n/): the lines between the line feeds, without
\* the carriage return that precedes a line feed
splitLines(text) ==
  LET feeds == {i \in 1..Len(text) : text[i] = "\n"}
      nth(n) == IF n = 0 THEN 0
                ELSE IF n > Cardinality(feeds) THEN Len(text) + 1
                ELSE CHOOSE i \in feeds : Cardinality({k \in feeds : k <= i}) = n
      lineEnd(n) == IF /\ n <= Cardinality(feeds)
                       /\ nth(n) > 1
                       /\ text[nth(n) - 1] = "\r"
                      THEN nth(n) - 2 ELSE nth(n) - 1
  IN [n \in 1..Cardinality(feeds) + 1 |-> SubSeq(text, nth(n - 1) + 1, lineEnd(n))]

\* ---------------------------------------------------------------- numbers in a script
\* the index after the longest run of digits that starts at index from
DigitRunEnd(text, from) ==
  CHOOSE j \in from..Len(text) + 1 :
    /\ \A k \in from..j - 1 : IsDigit(text[k])
    /\ (j = Len(text) + 1 \/ ~IsDigit(text[j]))

\* the match of /^(?:\d+(?:\.\d*)?|\.\d+)(?:[eE][+-]?\d+)?/ at index from, which
\* is also the StrDecimalLiteral Number.parseFloat reads: where the integer
\* part, the fraction, the exponent and the match end (end = from: no match)
numberMatch(text, from) ==
  LET Match(intEnd, fracEnd, mantissaEnd, hasSign, expStart, expEnd) ==
        [intEnd |-> intEnd, fracStart |-> intEnd + 1, fracEnd |-> fracEnd,
         hasFraction |-> mantissaEnd > from /\ fracEnd > intEnd,
         hasExponent |-> expEnd > expStart,
         negativeExponent |-> expEnd > expStart /\ hasSign /\ text[mantissaEnd + 1] = "-",
         expStart |-> expStart, expEnd |-> expEnd,
         end |-> IF expEnd > expStart THEN expEnd ELSE mantissaEnd]
      Exponent(intEnd, fracEnd, mantissaEnd, hasE, hasSign, expStart) ==
        Match(intEnd, fracEnd, mantissaEnd, hasSign, expStart,
              IF hasE THEN DigitRunEnd(text, expStart) ELSE expStart)
      ExponentSign(intEnd, fracEnd, mantissaEnd, hasE, hasSign) ==
        Exponent(intEnd, fracEnd, mantissaEnd, hasE, hasSign,
                 IF hasSign THEN mantissaEnd + 2 ELSE mantissaEnd + 1)
      E(intEnd, fracEnd, mantissaEnd, hasE) ==
        ExponentSign(intEnd, fracEnd, mantissaEnd, hasE,
             hasE /\ mantissaEnd + 1 <= Len(text) /\ text[mantissaEnd + 1] \in {"+", "-"})
      Mantissa(intEnd, fracEnd, mantissaEnd) ==
        E(intEnd, fracEnd, mantissaEnd,
          mantissaEnd > from /\ mantissaEnd <= Len(text) /\ text[mantissaEnd] \in {"e", "E"})
      Fraction(intEnd, fracEnd) ==
        Mantissa(intEnd, fracEnd,
                 IF intEnd > from \/ fracEnd > intEnd + 1 THEN fracEnd ELSE from)
      Integer(intEnd) ==
        Fraction(intEnd,
                 IF intEnd <= Len(text) /\ text[intEnd] = "."
                   THEN DigitRunEnd(text, intEnd + 1) ELSE intEnd)
  IN Integer(DigitRunEnd(text, from))

\* the number written by the digits text[from..to - 1], after the digits of acc
RECURSIVE DigitsValue(_, _, _, _)
DigitsValue(text, from, to, acc) ==
  IF from >= to THEN acc
  ELSE DigitsValue(text, from + 1, to,
                   acc * 10 + (CHOOSE d \in 0..9 : DigitChars[d + 1] = text[from]))

RECURSIVE Pow10(_)
Pow10(n) == IF n <= 0 THEN 1 ELSE 10 * Pow10(n - 1)

\* A number read from a script is digits * 10^exponent10; NaN is not finite.
NaN == [finite |-> FALSE, digits |-> 0, exponent10 |-> 0]

\* the value of the literal matched at from
numberValue(text, from, match) ==
  LET fraction == IF match.hasFraction THEN match.fracEnd - match.fracStart ELSE 0
      mantissa == DigitsValue(text, match.fracStart, match.fracStart + fraction,
                              DigitsValue(text, from, match.intEnd, 0))
      exponent == IF match.hasExponent
                    THEN DigitsValue(text, match.expStart, match.expEnd, 0) ELSE 0
  IN [finite |-> TRUE, digits |-> mantissa,
      exponent10 |-> (IF match.negativeExponent THEN -exponent ELSE exponent) - fraction]

\* Number.parseFloat: leading whitespace, a sign, then the longest prefix that
\* is a decimal literal; whatever follows the literal is ignored
parseFloat(text) ==
  LET Value(negative, value) ==
        IF negative THEN [value EXCEPT !.digits = -value.digits] ELSE value
      Read(negative, from, match) ==
        IF match.end = from THEN NaN ELSE Value(negative, numberValue(text, from, match))
      ReadFrom(negative, from) == Read(negative, from, numberMatch(text, from))
      Signed(first, signed) ==
        ReadFrom(signed /\ text[first] = "-", IF signed THEN first + 1 ELSE first)
      Start(first) == Signed(first, first <= Len(text) /\ text[first] \in {"+", "-"})
      Skip(inked) ==
        Start(IF inked = {} THEN Len(text) + 1 ELSE CHOOSE i \in inked : \A j \in inked : i <= j)
  IN Skip({i \in 1..Len(text) : ~IsWhitespace(text[i])})

\* value < bound and value > bound for a finite number and an integer bound
NumberBelow(value, bound) ==
  IF value.exponent10 >= 0 THEN value.digits * Pow10(value.exponent10) < bound
  ELSE value.digits < bound * Pow10(-value.exponent10)
NumberAbove(value, bound) ==
  IF value.exponent10 >= 0 THEN value.digits * Pow10(value.exponent10) > bound
  ELSE value.digits > bound * Pow10(-value.exponent10)

\* a number in units of 1/Scale: the nearest multiple of 0.0001, a tie
\* rounded away from zero
Fixed(value) ==
  LET shift == value.exponent10 + 4
      magnitude == IF value.digits < 0 THEN -value.digits ELSE value.digits
      rounded == IF shift >= 0 THEN magnitude * Pow10(shift)
                 ELSE (2 * magnitude + Pow10(-shift)) \div (2 * Pow10(-shift))
  IN IF value.digits < 0 THEN -rounded ELSE rounded

\* Number(value.toFixed(4))
toFixed4(value) == Fixed(value)

\* Math.PI in units of 1/Scale
MathPI == 31416

\* ---------------------------------------------------------------- the script parser
MAX_SCRIPT_LINES == 200

\* How a call of the parser ends: with a value, or with the Error it throws.
\* The Error of a line carries the line's number, that of the script carries 0.
Returned(value) == [threw |-> FALSE, value |-> value]
Thrown(lineNumber, message) == [threw |-> TRUE, line |-> lineNumber, message |-> message]

parseNormalizedNumber(token, lineNumber, label) ==
  LET Check(value) ==
        IF ~value.finite THEN Thrown(lineNumber, label \o " must be a finite number")
        ELSE Returned(value)
  IN Check(parseFloat(token))

parseControlValue(token, lineNumber, field) ==
  LET Check(number) ==
        IF number.threw THEN number
        ELSE IF NumberBelow(number.value, -1) \/ NumberAbove(number.value, 1)
          THEN Thrown(lineNumber, field \o " value must be between -1 and 1")
        ELSE Returned(toFixed4(number.value))
  IN Check(parseNormalizedNumber(token, lineNumber, field \o " value"))

parseSetControl(tokens, lineNumber) ==
  LET Command(field, value) ==
        IF value.threw THEN value ELSE Returned(SetControl(field, value.value))
      Field(field) ==
        IF field \notin {"THROTTLE", "STRAFE", "TURN"}
          THEN Thrown(lineNumber, "SET field must be THROTTLE, STRAFE, or TURN")
        ELSE Command(field, parseControlValue(tokens[3], lineNumber, field))
  IN IF Len(tokens) # 3
       THEN Thrown(lineNumber, "SET must be written as \"SET THROTTLE|STRAFE|TURN <-1..1>\"")
     ELSE Field(Word(toUpperCase(tokens[2])))

parseFire(tokens, lineNumber) ==
  LET Mode(mode) ==
        IF mode \in {"ON", "1", "TRUE"} THEN Returned(Fire(TRUE))
        ELSE IF mode \in {"OFF", "0", "FALSE"} THEN Returned(Fire(FALSE))
        ELSE Thrown(lineNumber, "FIRE mode must be ON or OFF")
  IN IF Len(tokens) = 1 THEN Returned(Fire(TRUE))
     ELSE IF Len(tokens) # 2
       THEN Thrown(lineNumber, "FIRE must be \"FIRE\" or \"FIRE ON|OFF\"")
     ELSE Mode(Word(toUpperCase(tokens[2])))

parseBoost(tokens, lineNumber) ==
  LET Direction(direction) ==
        IF direction \notin {"LEFT", "RIGHT"}
          THEN Thrown(lineNumber, "BOOST direction must be LEFT or RIGHT")
        ELSE Returned(Boost(direction))
  IN IF Len(tokens) # 2
       THEN Thrown(lineNumber, "BOOST must be written as \"BOOST LEFT|RIGHT\"")
     ELSE Direction(Word(toUpperCase(tokens[2])))

parseCommand(tokens, lineNumber) ==
  LET Command(command) ==
        IF command = "SET" THEN parseSetControl(tokens, lineNumber)
        ELSE IF command \in {"FIRE", "SHOOT"} THEN parseFire(tokens, lineNumber)
        ELSE IF command = "BOOST" THEN parseBoost(tokens, lineNumber)
        ELSE Thrown(lineNumber, "unsupported command \"" \o Word(tokens[1]) \o "\"")
  IN IF Len(tokens) = 0 THEN Thrown(lineNumber, "command is missing")
     ELSE Command(Word(toUpperCase(tokens[1])))

\* ---------------------------------------------------------------- script expressions
EXPRESSION_FUNCTIONS ==
  [ABS |-> 1, MIN |-> 2, MAX |-> 2, CLAMP |-> 3, ATAN2 |-> 2, ANGLE_DIFF |-> 2,
   NORMALIZE_ANGLE |-> 1]

\* the index after the match of /^[A-Za-z_][A-Za-z0-9_]*/ at index from
IdentifierEnd(text, from) ==
  CHOOSE j \in from + 1..Len(text) + 1 :
    /\ \A k \in from + 1..j - 1 : IsWordChar(text[k])
    /\ (j = Len(text) + 1 \/ ~IsWordChar(text[j]))

\* the loop of tokenizeExpression from the character at position index (the
\* code's index + 1) on
RECURSIVE TokenizeFrom(_, _, _, _)
TokenizeFrom(expressionText, lineNumber, index, tokens) ==
  LET Push(type, end) ==
        TokenizeFrom(expressionText, lineNumber, end,
                     Append(tokens, [type |-> type, index |-> index - 1,
                                     value |-> SubSeq(expressionText, index, end - 1)]))
      Token(char, numberEnd) ==
        IF IsWhitespace(char)
          THEN TokenizeFrom(expressionText, lineNumber, index + 1, tokens)
        ELSE IF numberEnd > index THEN Push("NUMBER", numberEnd)
        ELSE IF IsIdentifierStart(char)
          THEN Push("IDENTIFIER", IdentifierEnd(expressionText, index))
        ELSE IF char \in {"(", ")", "+", "-", "*", "/", ","} THEN Push("SYMBOL", index + 1)
        ELSE Thrown(lineNumber, "invalid character \"" \o char \o "\" in expression")
  IN IF index > Len(expressionText)
       THEN Returned(Append(tokens, [type |-> "EOF", value |-> << >>,
                                     index |-> Len(expressionText)]))
     ELSE Token(expressionText[index], numberMatch(expressionText, index).end)

tokenizeExpression(expressionText, lineNumber) ==
  TokenizeFrom(expressionText, lineNumber, 1, << >>)

\* An ExpressionParser is its tokens, expressionText and lineNumber; its cursor
\* (counted from 1) is handed from method to method: a method that returns
\* gives the cursor it leaves behind next to its value.
Parsed(value, cursor) == [threw |-> FALSE, value |-> value, cursor |-> cursor]

peekSymbol(parser, cursor, symbol) ==
  parser.tokens[cursor].type = "SYMBOL" /\ parser.tokens[cursor].value = <<symbol>>

RECURSIVE parseAdditive(_, _)
RECURSIVE AdditiveLoop(_, _)
RECURSIVE parseMultiplicative(_, _)
RECURSIVE MultiplicativeLoop(_, _)
RECURSIVE parseUnary(_, _)
RECURSIVE parseFunctionCall(_, _, _)
RECURSIVE FunctionArguments(_, _, _)
RECURSIVE parsePrimary(_, _)

\* the while loop of parseAdditive, entered with left
AdditiveLoop(parser, left) ==
  LET Combine(right) ==
        IF right.threw THEN right
        ELSE AdditiveLoop(parser,
                          Parsed(Binary(parser.tokens[left.cursor].value[1],
                                        left.value, right.value), right.cursor))
  IN IF left.threw THEN left
     ELSE IF peekSymbol(parser, left.cursor, "+") \/ peekSymbol(parser, left.cursor, "-")
       THEN Combine(parseMultiplicative(parser, left.cursor + 1))
     ELSE left

parseAdditive(parser, cursor) == AdditiveLoop(parser, parseMultiplicative(parser, cursor))

\* the while loop of parseMultiplicative, entered with left
MultiplicativeLoop(parser, left) ==
  LET Combine(right) ==
        IF right.threw THEN right
        ELSE MultiplicativeLoop(parser,
                                Parsed(Binary(parser.tokens[left.cursor].value[1],
                                              left.value, right.value), right.cursor))
  IN IF left.threw THEN left
     ELSE IF peekSymbol(parser, left.cursor, "*") \/ peekSymbol(parser, left.cursor, "/")
       THEN Combine(parseUnary(parser, left.cursor + 1))
     ELSE left

parseMultiplicative(parser, cursor) == MultiplicativeLoop(parser, parseUnary(parser, cursor))

parseUnary(parser, cursor) ==
  LET Signed(operand) ==
        IF operand.threw THEN operand
        ELSE Parsed(Unary(parser.tokens[cursor].value[1], operand.value), operand.cursor)
  IN IF peekSymbol(parser, cursor, "+") \/ peekSymbol(parser, cursor, "-")
       THEN Signed(parseUnary(parser, cursor + 1))
     ELSE parsePrimary(parser, cursor)

\* the loop that collects the arguments of a call
FunctionArguments(parser, cursor, args) ==
  LET Collect(argument) ==
        IF argument.threw THEN argument
        ELSE IF peekSymbol(parser, argument.cursor, ",")
          THEN FunctionArguments(parser, argument.cursor + 1, Append(args, argument.value))
        ELSE Parsed(Append(args, argument.value), argument.cursor)
  IN Collect(parseAdditive(parser, cursor))

\* (the list of allowed names that ends the first message is left out)
parseFunctionCall(parser, cursor, functionName) ==
  LET Call(args) ==
        IF args.threw THEN args
        ELSE IF ~peekSymbol(parser, args.cursor, ")")
          THEN Thrown(parser.lineNumber,
                      "missing \")\" in expression \"" \o Word(parser.expressionText) \o "\"")
        ELSE IF Len(args.value) # EXPRESSION_FUNCTIONS[functionName]
          THEN Thrown(parser.lineNumber,
                      functionName \o " expects "
                        \o ToString(EXPRESSION_FUNCTIONS[functionName])
                        \o " argument(s), got " \o ToString(Len(args.value)))
        ELSE Parsed(Function(functionName, args.value), args.cursor + 1)
  IN IF functionName \notin DOMAIN EXPRESSION_FUNCTIONS
       THEN Thrown(parser.lineNumber, "unknown function \"" \o functionName \o "\"")
     ELSE Call(IF peekSymbol(parser, cursor, ")") THEN Parsed(<< >>, cursor)
               ELSE FunctionArguments(parser, cursor, << >>))

\* (the list of allowed sensors that ends the unknown identifier message is
\* left out)
parsePrimary(parser, cursor) ==
  LET NumberLiteral(number) ==
        IF number.threw THEN number
        ELSE Parsed(Literal(Fixed(number.value)), cursor + 1)
      Identifier(token, normalized) ==
        IF peekSymbol(parser, cursor + 1, "(")
          THEN parseFunctionCall(parser, cursor + 2, normalized)
        ELSE IF normalized \in SENSOR_VARIABLES THEN Parsed(Sensor(normalized), cursor + 1)
        ELSE IF normalized = "PI" THEN Parsed(Literal(MathPI), cursor + 1)
        ELSE IF normalized = "TAU" THEN Parsed(Literal(MathPI * 2), cursor + 1)
        ELSE Thrown(parser.lineNumber, "unknown identifier \"" \o Word(token.value) \o "\"")
      Nested(nested) ==
        IF nested.threw THEN nested
        ELSE IF ~peekSymbol(parser, nested.cursor, ")")
          THEN Thrown(parser.lineNumber,
                      "missing \")\" in expression \"" \o Word(parser.expressionText) \o "\"")
        ELSE Parsed(nested.value, nested.cursor + 1)
      Primary(token) ==
        IF token.type = "NUMBER"
          THEN NumberLiteral(parseNormalizedNumber(token.value, parser.lineNumber,
                                                   "expression number"))
        ELSE IF token.type = "IDENTIFIER"
          THEN Identifier(token, Word(toUpperCase(token.value)))
        ELSE IF peekSymbol(parser, cursor, "(") THEN Nested(parseAdditive(parser, cursor + 1))
        ELSE Thrown(parser.lineNumber,
                    "invalid expression near \"" \o Word(parser.expressionText) \o "\"")
  IN Primary(parser.tokens[cursor])

\* ExpressionParser.parse: the expression, then the end of the tokens
parse(parser) ==
  LET End(expression) ==
        IF expression.threw THEN expression
        ELSE IF parser.tokens[expression.cursor].type # "EOF"
          THEN Thrown(parser.lineNumber,
                      "expression parse error near \"" \o Word(parser.expressionText) \o "\"")
        ELSE Returned(expression.value)
  IN End(parseAdditive(parser, 1))

parseNumericExpression(expressionText, lineNumber) ==
  LET Tokens(trimmed, tokens) ==
        IF tokens.threw THEN tokens
        ELSE parse([tokens |-> tokens.value, expressionText |-> trimmed,
                    lineNumber |-> lineNumber])
      Trimmed(trimmed) ==
        IF trimmed = << >> THEN Thrown(lineNumber, "expression is empty")
        ELSE Tokens(trimmed, tokenizeExpression(trimmed, lineNumber))
  IN Trimmed(trim(expressionText))

\* ---------------------------------------------------------------- conditions
\* String.prototype.startsWith(word, index) for the character at position
\* index + 1
startsWith(text, word, position) ==
  /\ position + Len(word) - 1 <= Len(text)
  /\ Word(SubSeq(text, position, position + Len(word) - 1)) = word

ComparisonOperators == <<">=", "<=", "==", "!=", ">", "<", "=">>

\* the for loop of splitConditionComparison from the character at position
\* on; found.index = 0: no comparator was found so far
RECURSIVE ComparisonScan(_, _, _, _, _)
ComparisonScan(conditionText, lineNumber, position, depth, found) ==
  LET Found(sourceOperator) ==
        ComparisonScan(conditionText, lineNumber, position + Len(sourceOperator), depth,
                       [index |-> position, sourceOperator |-> sourceOperator,
                        operator |-> IF sourceOperator = "=" THEN "==" ELSE sourceOperator])
      Operator(candidates) ==
        IF depth # 0 \/ candidates = {}
          THEN ComparisonScan(conditionText, lineNumber, position + 1, depth, found)
        ELSE IF found.index # 0
          THEN Thrown(lineNumber, "IF condition supports only one top-level comparator")
        ELSE Found(ComparisonOperators[CHOOSE c \in candidates : \A d \in candidates : c <= d])
      Character(char) ==
        IF char = "("
          THEN ComparisonScan(conditionText, lineNumber, position + 1, depth + 1, found)
        ELSE IF char = ")"
          THEN IF depth - 1 < 0
                 THEN Thrown(lineNumber, "IF condition has mismatched parentheses")
               ELSE ComparisonScan(conditionText, lineNumber, position + 1, depth - 1, found)
        ELSE Operator({c \in 1..Len(ComparisonOperators) :
                         startsWith(conditionText, ComparisonOperators[c], position)})
  IN IF position > Len(conditionText) THEN
       IF depth # 0 THEN Thrown(lineNumber, "IF condition has mismatched parentheses")
       ELSE Returned(found)
     ELSE Character(conditionText[position])

splitConditionComparison(conditionText, lineNumber) ==
  LET Sides(found, left, right) ==
        IF left = << >> \/ right = << >>
          THEN Thrown(lineNumber,
                      "IF condition comparator requires both left and right expressions")
        ELSE Returned([left |-> left, operator |-> found.operator, right |-> right])
      Split(found) ==
        IF found.index = 0
          THEN Thrown(lineNumber, "invalid IF condition. Use ENEMY_VISIBLE, <EXPR> <OP> <EXPR>, and combine with AND/OR/NOT")
        ELSE Sides(found,
                   trim(SubSeq(conditionText, 1, found.index - 1)),
                   trim(slice(conditionText, found.index - 1 + Len(found.sourceOperator))))
      Scanned(scan) == IF scan.threw THEN scan ELSE Split(scan.value)
  IN Scanned(ComparisonScan(conditionText, lineNumber, 1, 0,
                            [index |-> 0, sourceOperator |-> "", operator |-> ""]))

\* /[A-Z0-9_]/ on a character, or on undefined where the text has none
isIdentifierCharacter(text, position) ==
  /\ position \in 1..Len(text)
  /\ \/ text[position] = "_"
     \/ IsDigit(text[position])
     \/ \E l \in 1..26 : UpperCaseChars[l] = text[position]

\* matchesKeywordAt(textUpper, position - 1, keyword)
matchesKeywordAt(textUpper, position, keyword) ==
  /\ startsWith(textUpper, keyword, position)
  /\ ~isIdentifierCharacter(textUpper, position - 1)
  /\ ~isIdentifierCharacter(textUpper, position + Len(keyword))

\* the for loop of splitTopLevelByKeyword from the character at position on;
\* lastStart is the position of the character at lastIndex
RECURSIVE KeywordScan(_, _, _, _, _, _, _, _)
KeywordScan(source, upper, keyword, lineNumber, position, depth, lastStart, parts) ==
  LET Last(tail) ==
        IF tail = << >> THEN Thrown(lineNumber, keyword \o " condition operand is missing")
        ELSE Returned([matched |-> TRUE, parts |-> Append(parts, tail)])
      Segment(segment) ==
        IF segment = << >>
          THEN Thrown(lineNumber, keyword \o " condition operand is missing")
        ELSE KeywordScan(source, upper, keyword, lineNumber, position + Len(keyword), depth,
                         position + Len(keyword), Append(parts, segment))
      Character(char) ==
        IF char = "("
          THEN KeywordScan(source, upper, keyword, lineNumber, position + 1, depth + 1,
                           lastStart, parts)
        ELSE IF char = ")"
          THEN IF depth - 1 < 0
                 THEN Thrown(lineNumber, "IF condition has mismatched parentheses")
               ELSE KeywordScan(source, upper, keyword, lineNumber, position + 1, depth - 1,
                                lastStart, parts)
        ELSE IF depth # 0 \/ ~matchesKeywordAt(upper, position, keyword)
          THEN KeywordScan(source, upper, keyword, lineNumber, position + 1, depth,
                           lastStart, parts)
        ELSE Segment(trim(SubSeq(source, lastStart, position - 1)))
  IN IF position > Len(source) THEN
       IF depth # 0 THEN Thrown(lineNumber, "IF condition has mismatched parentheses")
       ELSE IF parts = << >> THEN Returned([matched |-> FALSE, parts |-> << >>])
       ELSE Last(trim(SubSeq(source, lastStart, Len(source))))
     ELSE Character(source[position])

\* the parts, or matched = FALSE where the code returns null
splitTopLevelByKeyword(conditionText, keyword, lineNumber) ==
  LET Scan(source) ==
        KeywordScan(source, toUpperCase(source), keyword, lineNumber, 1, 0, 1, << >>)
  IN Scan(trim(conditionText))

isWrappedByOuterParentheses(conditionText) ==
  LET Wrapped(source) ==
        LET depthAfter(i) == Cardinality({k \in 1..i : source[k] = "("})
                               - Cardinality({k \in 1..i : source[k] = ")"})
        IN /\ source # << >>
           /\ source[1] = "("
           /\ source[Len(source)] = ")"
           /\ \A i \in 1..Len(source) - 1 : ~(source[i] = ")" /\ depthAfter(i) = 0)
           /\ depthAfter(Len(source)) = 0
  IN Wrapped(trim(conditionText))

RECURSIVE stripOuterParentheses(_)
stripOuterParentheses(conditionText) ==
  LET Strip(value) ==
        IF isWrappedByOuterParentheses(value)
          THEN stripOuterParentheses(SubSeq(value, 2, Len(value) - 1))
        ELSE value
  IN Strip(trim(conditionText))

RECURSIVE parseConditionNode(_, _)
\* parts.slice(1).reduce(...) of parseConditionNode: the operands from the
\* one at index on, combined to the right of left
RECURSIVE ReduceLogical(_, _, _, _, _)
ReduceLogical(operator, parts, index, left, lineNumber) ==
  LET Combine(right) ==
        IF right.threw THEN right
        ELSE ReduceLogical(operator, parts, index + 1,
                           Returned(Logical(operator, left.value, right.value)), lineNumber)
  IN IF left.threw \/ index > Len(parts) THEN left
     ELSE Combine(parseConditionNode(parts[index], lineNumber))

\* parseConditionNode from line 811 on: the comparison of two expressions
ComparisonNode(comparison, lineNumber) ==
  LET Compared(left, right) ==
        IF left.threw THEN left
        ELSE IF right.threw THEN right
        ELSE Returned(Compare(left.value, comparison.value.operator, right.value))
  IN IF comparison.threw THEN comparison
     ELSE Compared(parseNumericExpression(comparison.value.left, lineNumber),
                   parseNumericExpression(comparison.value.right, lineNumber))

\* parseConditionNode at lines 793-801: the operand of NOT
NotNode(operandText, lineNumber) ==
  LET Negated(operand) == IF operand.threw THEN operand ELSE Returned(Not(operand.value))
  IN IF operandText = << >> THEN Thrown(lineNumber, "NOT condition operand is missing")
     ELSE Negated(parseConditionNode(operandText, lineNumber))

\* parseConditionNode from line 791 on: a condition without a top-level OR or AND
AtomNode(stripped, upper, lineNumber) ==
  IF matchesKeywordAt(upper, 1, "NOT") THEN NotNode(trim(slice(stripped, 3)), lineNumber)
  ELSE IF Word(upper) = "ENEMY_VISIBLE" THEN Returned(Visibility(TRUE))
  ELSE ComparisonNode(splitConditionComparison(stripped, lineNumber), lineNumber)

\* parseConditionNode from line 778 on
AndNode(stripped, andParts, lineNumber) ==
  IF andParts.threw THEN andParts
  ELSE IF andParts.value.matched
    THEN ReduceLogical("AND", andParts.value.parts, 2,
                       parseConditionNode(andParts.value.parts[1], lineNumber), lineNumber)
  ELSE AtomNode(stripped, toUpperCase(stripped), lineNumber)

\* parseConditionNode from line 765 on
OrNode(stripped, orParts, lineNumber) ==
  IF orParts.threw THEN orParts
  ELSE IF orParts.value.matched
    THEN ReduceLogical("OR", orParts.value.parts, 2,
                       parseConditionNode(orParts.value.parts[1], lineNumber), lineNumber)
  ELSE AndNode(stripped, splitTopLevelByKeyword(stripped, "AND", lineNumber), lineNumber)

\* parseConditionNode splitting at AND before it splits at OR
StrippedNodeAndFirst(stripped, lineNumber) ==
  LET OrLast(orParts) ==
        IF orParts.threw THEN orParts
        ELSE IF orParts.value.matched
          THEN ReduceLogical("OR", orParts.value.parts, 2,
                             parseConditionNode(orParts.value.parts[1], lineNumber), lineNumber)
        ELSE AtomNode(stripped, toUpperCase(stripped), lineNumber)
      AndFirst(andParts) ==
        IF andParts.threw THEN andParts
        ELSE IF andParts.value.matched
          THEN ReduceLogical("AND", andParts.value.parts, 2,
                             parseConditionNode(andParts.value.parts[1], lineNumber), lineNumber)
        ELSE OrLast(splitTopLevelByKeyword(stripped, "OR", lineNumber))
  IN IF stripped = << >> THEN Thrown(lineNumber, "IF condition is missing")
     ELSE AndFirst(splitTopLevelByKeyword(stripped, "AND", lineNumber))

\* parseConditionNode from line 761 on
StrippedNode(stripped, lineNumber) ==
  IF stripped = << >> THEN Thrown(lineNumber, "IF condition is missing")
  ELSE OrNode(stripped, splitTopLevelByKeyword(stripped, "OR", lineNumber), lineNumber)

parseConditionNode(conditionText, lineNumber) ==
  StrippedNode(stripOuterParentheses(conditionText), lineNumber)

parseCondition(conditionText, lineNumber) ==
  IF trim(conditionText) = << >> THEN Thrown(lineNumber, "IF condition is missing")
  ELSE parseConditionNode(conditionText, lineNumber)

\* ---------------------------------------------------------------- lines and scripts
\* the index of the match of /\bTHEN\b/i in a text, counted from 1; 0: no match
thenMatch(text) ==
  LET upper == toUpperCase(text)
      matches == {i \in 1..Len(text) :
                    /\ startsWith(upper, "THEN", i)
                    /\ (i = 1 \/ ~IsWordChar(text[i - 1]))
                    /\ (i + 4 > Len(text) \/ ~IsWordChar(text[i + 4]))}
  IN IF matches = {} THEN 0 ELSE CHOOSE i \in matches : \A j \in matches : i <= j

\* parseSingleLine from line 846 on: the rule of an IF ... THEN line
ConditionalRule(conditionText, commandTokens, lineNumber) ==
  LET Conditional(condition, command) ==
        IF condition.threw THEN condition
        ELSE IF command.threw THEN command
        ELSE Returned(Rule(lineNumber, condition.value, command.value))
  IN IF conditionText = << >> THEN Thrown(lineNumber, "IF condition is missing")
     ELSE IF commandTokens = << >> THEN Thrown(lineNumber, "IF ... THEN command is missing")
     ELSE Conditional(parseCondition(conditionText, lineNumber),
                      parseCommand(commandTokens, lineNumber))

\* parseSingleLine from line 836 on; thenIndex = 0: afterIf has no THEN
ThenStatement(afterIf, thenIndex, lineNumber) ==
  IF thenIndex = 0 THEN Thrown(lineNumber, "IF statement must include THEN")
  ELSE ConditionalRule(trim(SubSeq(afterIf, 1, thenIndex - 1)),
                       splitWhitespace(trim(slice(afterIf, thenIndex - 1 + 4))), lineNumber)

\* parseSingleLine from line 830 on
TrimmedLine(trimmed, lineNumber) ==
  LET Unconditional(command) ==
        IF command.threw THEN command
        ELSE Returned(Rule(lineNumber, NoCondition, command.value))
  IN IF trimmed = << >> \/ trimmed[1] = "#" THEN Returned(NullValue)
     ELSE IF /\ startsWith(toUpperCase(trimmed), "IF", 1)
             /\ (Len(trimmed) = 2 \/ ~IsWordChar(trimmed[3]))
       THEN ThenStatement(trim(slice(trimmed, 2)), thenMatch(trim(slice(trimmed, 2))),
                          lineNumber)
     ELSE Unconditional(parseCommand(splitWhitespace(trimmed), lineNumber))

\* Returned(NullValue): the line is blank or a comment
parseSingleLine(rawLine, lineNumber) == TrimmedLine(trim(rawLine), lineNumber)

\* lines.forEach of parseRobotScript: what the first line that throws throws,
\* else the rules of the lines that are neither blank nor comments
parseLines(lines) ==
  LET Rules(executable) == Returned([k \in 1..Len(executable) |-> executable[k].value])
      Thrower(parsed, throwing) ==
        IF throwing # << >> THEN throwing[1]
        ELSE Rules(SelectSeq(parsed, LAMBDA line : line.value # NullValue))
      Each(parsed) == Thrower(parsed, SelectSeq(parsed, LAMBDA line : line.threw))
  IN Each([index \in 1..Len(lines) |-> parseSingleLine(lines[index], index)])

\* parseRobotScript from line 880 on, were a line that throws skipped like a
\* blank line
ScriptRulesSkippingBadLines(lines) ==
  LET Rules(executable) ==
        IF Len(executable) = 0 THEN Thrown(0, "script has no executable commands")
        ELSE Returned([k \in 1..Len(executable) |-> executable[k].value])
      Parse(parsed) ==
        Rules(SelectSeq(parsed, LAMBDA line : ~line.threw /\ line.value # NullValue))
  IN IF Len(lines) > MAX_SCRIPT_LINES
       THEN Thrown(0, "script is too long; maximum " \o ToString(MAX_SCRIPT_LINES) \o " lines")
     ELSE Parse([index \in 1..Len(lines) |-> parseSingleLine(lines[index], index)])

parseRobotScriptSkippingBadLines(scriptText) ==
  IF scriptText.kind # "string" THEN Thrown(0, "script is empty")
  ELSE IF trim(scriptText.chars) = << >> THEN Thrown(0, "script is empty")
  ELSE ScriptRulesSkippingBadLines(splitLines(scriptText.chars))

\* parseRobotScript from line 880 on
ScriptRules(lines) ==
  LET Rules(rules) ==
        IF rules.threw THEN rules
        ELSE IF Len(rules.value) = 0 THEN Thrown(0, "script has no executable commands")
        ELSE rules
  IN IF Len(lines) > MAX_SCRIPT_LINES
       THEN Thrown(0, "script is too long; maximum " \o ToString(MAX_SCRIPT_LINES) \o " lines")
     ELSE Rules(parseLines(lines))

parseRobotScript(scriptText) ==
  IF scriptText.kind # "string" THEN Thrown(0, "script is empty")
  ELSE IF trim(scriptText.chars) = << >> THEN Thrown(0, "script is empty")
  ELSE ScriptRules(splitLines(scriptText.chars))

\* ---------------------------------------------------------------- the driver
\* CREATE_BATTLE_SCHEMA limits and the fallback of resolveMaxTicks
MIN_ARENA_SIZE == 6
MAX_ARENA_SIZE == 40
DEFAULT_ARENA_SIZE == 10
MIN_MAX_TICKS == 20
MAX_MAX_TICKS == 5000
MIN_MAX_TURNS == 1
MAX_MAX_TURNS == 1000

\* z.number().int().min(lo).max(hi).optional() on a request field
OptionalIntBetween(value, lo, hi) ==
  value.kind = "undefined" \/ (IsNum(value) /\ lo <= value.v /\ value.v <= hi)

\* CREATE_BATTLE_SCHEMA.parse(payload): whether it succeeds, and the parsed data
CREATE_BATTLE_SCHEMA(payload) ==
  [success |-> /\ Len(payload.robotAId) >= 1
               /\ Len(payload.robotBId) >= 1
               /\ OptionalIntBetween(payload.arenaSize, MIN_ARENA_SIZE, MAX_ARENA_SIZE)
               /\ OptionalIntBetween(payload.maxTicks, MIN_MAX_TICKS, MAX_MAX_TICKS)
               /\ OptionalIntBetween(payload.maxTurns, MIN_MAX_TURNS, MAX_MAX_TURNS)
               /\ payload.robotAId # payload.robotBId,
   data |-> [payload EXCEPT
               !.arenaSize = IF @.kind = "undefined" THEN Num(DEFAULT_ARENA_SIZE) ELSE @]]

resolveMaxTicks(input, fallback) ==
  IF IsNum(input.maxTicks) THEN input.maxTicks.v
  ELSE IF IsNum(input.maxTurns) THEN input.maxTurns.v
  ELSE fallback

\* the documents of the "robots" collection: id -> parsedProgram
StoredRobots == ("a" :> HunterProgram) @@ ("b" :> IdleProgram)

\* ---------------------------------------------------------------- bounds
MaxArena == 7
MaxTicks == 40
MaxRules == 2
MaxShortScript == 3
ArenaSizes == MIN_ARENA_SIZE..MaxArena
TickLimits == {MIN_MAX_TICKS, MaxTicks}

vars == <<arenaSize, tickLimit, programs, robots, activeProjectiles, tick, ticks, pc,
          result, request, decision, locals, store>>

\* ---------------------------------------------------------------- the battle
\* simulateBattle entered by previewRobotDuel with an accepted request
Init ==
  /\ arenaSize \in ArenaSizes
  /\ tickLimit \in TickLimits
  /\ programs \in [Slots -> Programs]
  /\ request = [robotAId |-> RobotIdOf.robotA, robotBId |-> RobotIdOf.robotB,
                arenaSize |-> Num(arenaSize), maxTicks |-> Num(tickLimit),
                maxTurns |-> UndefinedValue]
  /\ robots = InitialRobots(RobotIdOf.robotA, RobotIdOf.robotB, arenaSize)
  /\ activeProjectiles = << >>
  /\ tick = 0
  /\ ticks = << >>
  /\ pc = "loop"
  /\ result = NoResult
  /\ decision = NoDecision
  /\ locals = NoLocals
  /\ store = NoStore

\* the tick loop without its break and with every phase taking a dead robot
\* for an alive one
TickDeadRobotsAct ==
  /\ pc = "loop"
  /\ tick + 1 <= tickLimit
  /\ \E step \in {TickStep([robots.robotA EXCEPT !.alive = TRUE],
                            [robots.robotB EXCEPT !.alive = TRUE],
                            activeProjectiles, arenaSize, tick + 1)} :
        /\ robots' = [robotA |-> [step.robotA EXCEPT !.alive = @ /\ robots.robotA.alive],
                      robotB |-> [step.robotB EXCEPT !.alive = @ /\ robots.robotB.alive]]
        /\ activeProjectiles' = step.activeProjectiles
        /\ decision' = step.decisions
        /\ locals' = step.locals
        /\ ticks' = Append(ticks, step.tickLog)
        /\ tick' = tick + 1
        /\ pc' = "loop"
  /\ UNCHANGED <<arenaSize, tickLimit, programs, result, request, store>>

\* the tick loop without its `if (!a.alive || !b.alive) break`
TickNoBreak ==
  /\ pc = "loop"
  /\ tick + 1 <= tickLimit
  /\ \E step \in {TickStep(robots.robotA, robots.robotB, activeProjectiles, arenaSize, tick + 1)} :
        /\ robots' = [robotA |-> step.robotA, robotB |-> step.robotB]
        /\ activeProjectiles' = step.activeProjectiles
        /\ decision' = step.decisions
        /\ locals' = step.locals
        /\ ticks' = Append(ticks, step.tickLog)
        /\ tick' = tick + 1
        /\ pc' = "loop"
  /\ UNCHANGED <<arenaSize, tickLimit, programs, result, request, store>>

\* one iteration of `for (let tick = 1; tick <= tickLimit; tick += 1)`
Tick ==
  /\ pc = "loop"
  /\ tick + 1 <= tickLimit
  /\ \E step \in {TickStep(robots.robotA, robots.robotB, activeProjectiles, arenaSize, tick + 1)} :
        /\ robots' = [robotA |-> step.robotA, robotB |-> step.robotB]
        /\ activeProjectiles' = step.activeProjectiles
        /\ decision' = step.decisions
        /\ locals' = step.locals
        /\ ticks' = Append(ticks, step.tickLog)
        /\ tick' = tick + 1
        /\ pc' = IF ~step.robotA.alive \/ ~step.robotB.alive THEN "break" ELSE "loop"
  /\ UNCHANGED <<arenaSize, tickLimit, programs, result, request, store>>

\* the code after the loop: winner, status and final state
Finish ==
  /\ pc = "break" \/ (pc = "loop" /\ ~(tick + 1 <= tickLimit))
  /\ LET winnerRobotId == computeWinner(robots.robotA, robots.robotB)
     IN result' = [status |-> IF winnerRobotId # "null" THEN "finished" ELSE "draw",
                   winnerRobotId |-> winnerRobotId,
                   maxTicks |-> tickLimit,
                   ticks |-> Len(ticks),
                   replayFrames |->
                     buildReplayFrames(
                       snapshotBattle(
                         buildRobotState(robots.robotA.id, 0, 0, "E"),
                         buildRobotState(robots.robotB.id, (arenaSize - 1) * Scale,
                                         (arenaSize - 1) * Scale, "W")),
                       ticks),
                   finalState |-> snapshotBattle(robots.robotA, robots.robotB)]
  /\ pc' = "done"
  /\ UNCHANGED <<arenaSize, tickLimit, programs, robots, activeProjectiles, tick, ticks,
                 request, decision, locals, store>>

Next == Tick \/ Finish

Spec == Init /\ [][Next]_vars

\* A loop iteration seen through the loop counter: the steps of Next that
\* satisfy LoopStep are exactly the Tick steps, and Tick is enabled exactly
\* when the loop condition holds.
LoopStep == pc = "loop" /\ tick + 1 <= tickLimit /\ tick' = tick + 1

\* the loop body always runs to its end and the code after the loop follows it
FairSpec == Spec /\ WF_tick(LoopStep) /\ WF_vars(Finish)

\* ---------------------------------------------------------------- runBattle
\* payloads around each limit of CREATE_BATTLE_SCHEMA; robot "c" is not stored
IdPairs == {<<"a", "b">>, <<"a", "a">>, <<"", "b">>, <<"a", "c">>}
ArenaInputs ==
  {UndefinedValue, Num(MIN_ARENA_SIZE - 1), Num(MIN_ARENA_SIZE), Num(MAX_ARENA_SIZE + 1)}
TickInputs ==
  {UndefinedValue, Num(MIN_MAX_TICKS - 1), Num(MIN_MAX_TICKS), Num(MAX_MAX_TICKS),
   Num(MAX_MAX_TICKS + 1)}
TurnInputs ==
  {UndefinedValue, Num(MIN_MAX_TURNS - 1), Num(MIN_MAX_TURNS), Num(MIN_MAX_TICKS - 1),
   Num(MAX_MAX_TURNS), Num(MAX_MAX_TURNS + 1)}
Requests ==
  {[robotAId |-> ids[1], robotBId |-> ids[2], arenaSize |-> size, maxTicks |-> maxTicks,
    maxTurns |-> maxTurns] :
     ids \in IdPairs, size \in ArenaInputs, maxTicks \in TickInputs, maxTurns \in TurnInputs}

DriverInit ==
  /\ request \in Requests
  /\ pc = "request"
  /\ arenaSize = 0
  /\ tickLimit = 0
  /\ programs = [slot \in Slots |-> << >>]
  /\ robots = InitialRobots("", "", MIN_ARENA_SIZE)
  /\ activeProjectiles = << >>
  /\ tick = 0
  /\ ticks = << >>
  /\ result = NoResult
  /\ decision = NoDecision
  /\ locals = NoLocals
  /\ store = NoStore

\* runBattle up to the first tick of simulateBattle: parse the payload,
\* resolve the tick bound, load both robots, build the two robot states
RunBattle ==
  /\ pc = "request"
  /\ LET parsed == CREATE_BATTLE_SCHEMA(request)
         parsedInput == parsed.data
     IN IF ~parsed.success
           \/ parsedInput.robotAId \notin DOMAIN StoredRobots
           \/ parsedInput.robotBId \notin DOMAIN StoredRobots
        THEN /\ pc' = "rejected"
             /\ UNCHANGED <<arenaSize, tickLimit, programs, robots>>
        ELSE /\ pc' = "loop"
             /\ tickLimit' = resolveMaxTicks(parsedInput, DefaultMaxTicks)
             /\ arenaSize' = parsedInput.arenaSize.v
             /\ programs' = [robotA |-> StoredRobots[parsedInput.robotAId],
                             robotB |-> StoredRobots[parsedInput.robotBId]]
             /\ robots' = InitialRobots(parsedInput.robotAId, parsedInput.robotBId,
                                        parsedInput.arenaSize.v)
  /\ UNCHANGED <<activeProjectiles, tick, ticks, result, request, decision, locals, store>>

DriverNext == RunBattle \/ Tick \/ Finish

DriverSpec == DriverInit /\ [][DriverNext]_vars

\* ---------------------------------------------------------------- resolveControls alone
\* conditions and commands the evaluated programs are made of
RulePool ==
  <<[condition |-> NoCondition, command |-> SetControl("THROTTLE", Scale)],
    [condition |-> NoCondition, command |-> SetControl("THROTTLE", -(Scale \div 2))],
    [condition |-> Visibility(TRUE), command |-> Fire(TRUE)],
    [condition |-> NoCondition, command |-> Fire(FALSE)],
    [condition |-> Compare(Sensor("ENEMY_X"), "!=", Literal(0)), command |-> Boost("LEFT")],
    [condition |-> Compare(Sensor("ENEMY_DISTANCE"), "<=", Literal(VISION_RADIUS * Scale)),
     command |-> Boost("RIGHT")],
    [condition |-> Compare(Binary("/", Sensor("SELF_ENERGY"), Sensor("SELF_X")), ">=", Literal(0)),
     command |-> SetControl("TURN", Scale)],
    [condition |-> Compare(Literal(0), "==", Unary("-", Sensor("ENEMY_DY"))),
     command |-> SetControl("STRAFE", Scale)],
    [condition |-> Compare(Sensor("SHOT_RANGE"), "!=", Literal(0)), command |-> Fire(TRUE)],
    [condition |-> Compare(Sensor("PREV_ENEMY_X"), "<", Literal(100 * Scale)),
     command |-> SetControl("TURN", -Scale)],
    [condition |-> Compare(Function("MIN", <<Sensor("ENEMY_X"), Literal(Scale)>>), ">", Literal(-Scale)),
     command |-> SetControl("STRAFE", -Scale)],
    [condition |-> Compare(Sensor("SELF_X"), "==", Literal(0)),
     command |-> SetControl("STRAFE", Scale \div 4)],
    [condition |-> Not(Compare(Sensor("ENEMY_DISTANCE"), "<", Literal(3 * Scale))),
     command |-> Fire(TRUE)]>>

\* every program of 1..MaxRules rules of the pool, rule i on line i
EvalPrograms ==
  UNION {{[i \in 1..n |-> Rule(i, RulePool[pick[i]].condition, RulePool[pick[i]].command)] :
            pick \in [1..n -> 1..Len(RulePool)]} : n \in 1..MaxRules}

\* the robots at tick 1 of an arena where they see each other and of one
\* where they do not; both run the same program
EvalInit ==
  /\ arenaSize \in {MIN_ARENA_SIZE, MIN_ARENA_SIZE + 1}
  /\ tickLimit = DefaultMaxTicks
  /\ programs \in {[slot \in Slots |-> program] : program \in EvalPrograms}
  /\ request = [robotAId |-> RobotIdOf.robotA, robotBId |-> RobotIdOf.robotB,
                arenaSize |-> Num(arenaSize), maxTicks |-> UndefinedValue,
                maxTurns |-> UndefinedValue]
  /\ robots = InitialRobots(RobotIdOf.robotA, RobotIdOf.robotB, arenaSize)
  /\ activeProjectiles = << >>
  /\ tick = 0
  /\ ticks = << >>
  /\ pc = "resolve"
  /\ result = NoResult
  /\ decision = NoDecision
  /\ locals = NoLocals
  /\ store = NoStore

\* the sensor context a robot evaluates its rules against
SensorsOf(slot) ==
  buildSensorContext(robots[slot], robots[Other(slot)],
                     buildPerception(robots[slot], robots[Other(slot)], arenaSize), arenaSize)

\* resolveControls(actor.program, sensors) for both robots
ResolveControls ==
  /\ pc = "resolve"
  /\ decision' = [slot \in Slots |-> resolveControls(programs[slot], SensorsOf(slot))]
  /\ pc' = "resolved"
  /\ UNCHANGED <<arenaSize, tickLimit, programs, robots, activeProjectiles, tick, ticks,
                 result, request, locals, store>>

EvalNext == ResolveControls

EvalSpec == EvalInit /\ [][EvalNext]_vars

\* ---------------------------------------------------------------- parseRobotScript alone
\* The lines the parsed scripts are made of, each with what it is by the
\* script language: a rule (with the condition and the command it states), a
\* blank line, a comment, or a malformed line.
ScriptLines ==
  <<\* "FIRE"
    [kind |-> "rule",
     text |-> <<"F", "I", "R", "E">>,
     condition |-> NoCondition,
     command |-> Fire(TRUE)],
    \* "  set throttle 0.5  "
    [kind |-> "rule",
     text |-> <<" ", " ", "s", "e", "t", " ", "t", "h", "r", "o", "t", "t", "l", "e",
               " ", "0", ".", "5", " ", " ">>,
     condition |-> NoCondition,
     command |-> SetControl("THROTTLE", Scale \div 2)],
    \* "IF ENEMY_VISIBLE THEN BOOST LEFT"
    [kind |-> "rule",
     text |-> <<"I", "F", " ", "E", "N", "E", "M", "Y", "_", "V", "I", "S", "I", "B",
               "L", "E", " ", "T", "H", "E", "N", " ", "B", "O", "O", "S", "T", " ",
               "L", "E", "F", "T">>,
     condition |-> Visibility(TRUE),
     command |-> Boost("LEFT")],
    \* "if self_energy >= 50 and not enemy_visible then fire off"
    [kind |-> "rule",
     text |-> <<"i", "f", " ", "s", "e", "l", "f", "_", "e", "n", "e", "r", "g", "y",
               " ", ">", "=", " ", "5", "0", " ", "a", "n", "d", " ", "n", "o", "t",
               " ", "e", "n", "e", "m", "y", "_", "v", "i", "s", "i", "b", "l", "e",
               " ", "t", "h", "e", "n", " ", "f", "i", "r", "e", " ", "o", "f", "f">>,
     condition |-> Logical("AND", Compare(Sensor("SELF_ENERGY"), ">=", Literal(50 * Scale)),
                              Not(Visibility(TRUE))),
     command |-> Fire(FALSE)],
    \* ""
    [kind |-> "blank",
     text |-> << >>],
    \* " \t"
    [kind |-> "blank",
     text |-> <<" ", "\t">>],
    \* "# FIRE"
    [kind |-> "comment",
     text |-> <<"#", " ", "F", "I", "R", "E">>],
    \* "JUMP"
    [kind |-> "malformed",
     text |-> <<"J", "U", "M", "P">>],
    \* "SET TURN 2"
    [kind |-> "malformed",
     text |-> <<"S", "E", "T", " ", "T", "U", "R", "N", " ", "2">>],
    \* "IF ENEMY_VISIBLE FIRE"
    [kind |-> "malformed",
     text |-> <<"I", "F", " ", "E", "N", "E", "M", "Y", "_", "V", "I", "S", "I", "B",
               "L", "E", " ", "F", "I", "R", "E">>],
    \* "IF SELF_SPEED > 1 THEN FIRE"
    [kind |-> "malformed",
     text |-> <<"I", "F", " ", "S", "E", "L", "F", "_", "S", "P", "E", "E", "D", " ",
               ">", " ", "1", " ", "T", "H", "E", "N", " ", "F", "I", "R", "E">>],
    \* "FIRE ON # now"
    [kind |-> "malformed",
     text |-> <<"F", "I", "R", "E", " ", "O", "N", " ", "#", " ", "n", "o", "w">>]>>

\* the lines picked by their index in ScriptLines, joined by line feeds
RECURSIVE JoinLines(_, _, _)
JoinLines(picks, first, last) ==
  IF first = last THEN ScriptLines[picks[first]].text
  ELSE JoinLines(picks, first, (first + last) \div 2)
         \o <<"\n">> \o JoinLines(picks, ((first + last) \div 2) + 1, last)

\* every script of 1..MaxShortScript lines
ShortScripts ==
  UNION {[1..n -> 1..Len(ScriptLines)] : n \in 1..MaxShortScript}

\* scripts of 200 and of 201 lines: FIRE on every line, or on every line but
\* the last, which is blank, a comment or malformed; and 201 blank lines
LongScripts ==
  {[i \in 1..n |-> IF i = n THEN last ELSE 1] : n \in {200, 201}, last \in {1, 5, 7, 8}}
    \cup {[i \in 1..201 |-> 5]}

\* the argument of parseRobotScript with the lines it was written from; a
\* value that is no string has no lines
ScriptRequests ==
  {[scriptText |-> Str(JoinLines(picks, 1, Len(picks))), lines |-> picks] :
     picks \in ShortScripts \cup LongScripts}
    \cup {[scriptText |-> value, lines |-> << >>] : value \in {NullValue, UndefinedValue, Num(0)}}

ParseInit ==
  /\ arenaSize = MIN_ARENA_SIZE
  /\ tickLimit = DefaultMaxTicks
  /\ programs = [slot \in Slots |-> IdleProgram]
  /\ request \in ScriptRequests
  /\ robots = InitialRobots(RobotIdOf.robotA, RobotIdOf.robotB, arenaSize)
  /\ activeProjectiles = << >>
  /\ tick = 0
  /\ ticks = << >>
  /\ pc = "parse"
  /\ result = NoResult
  /\ decision = NoDecision
  /\ locals = NoLocals
  /\ store = NoStore

\* parseRobotScript(scriptText), ended by a return or by a throw
ParseRobotScript ==
  /\ pc = "parse"
  /\ result' = parseRobotScript(request.scriptText)
  /\ pc' = "parsed"
  /\ UNCHANGED <<arenaSize, tickLimit, programs, robots, activeProjectiles, tick, ticks,
                 request, decision, locals, store>>

ParseNext == ParseRobotScript

ParseSpec == ParseInit /\ [][ParseNext]_vars

\* ---------------------------------------------------------------- handleMcpRequest
\* A JavaScript boolean: v is 1 for true and 0 for false.
Bool(b) == [kind |-> "boolean", v |-> IF b THEN 1 ELSE 0]

\* z.string().min(lo).max(hi)
StringBetween(value, lo, hi) ==
  value.kind = "string" /\ lo <= Len(value.chars) /\ Len(value.chars) <= hi

\* ROBOT_UPLOAD_SCHEMA with the collaboratorAgents of MCP_ROBOT_UPLOAD_SCHEMA:
\* whether parse(payload) succeeds.  creatorNickname, movementRules,
\* rotationRules and attackRules are checked like robotName; the payloads
\* here carry valid values for them.
MCP_ROBOT_UPLOAD_SCHEMA(payload) ==
  /\ StringBetween(payload.robotName, 1, 80)
  /\ StringBetween(payload.script, 1, 10000)
  /\ StringBetween(payload.robotImageSvg, 1, 50000)
  /\ 1 <= Len(payload.collaboratorAgents) /\ Len(payload.collaboratorAgents) <= 20
  /\ \A k \in 1..Len(payload.collaboratorAgents) :
       /\ StringBetween(payload.collaboratorAgents[k].name, 1, 120)
       /\ StringBetween(payload.collaboratorAgents[k].version, 1, 120)

\* the index of the first character at or after from that is not whitespace
SkipWhitespace(text, from) ==
  CHOOSE j \in from..Len(text) + 1 :
    /\ \A k \in from..j - 1 : IsWhitespace(text[k])
    /\ (j = Len(text) + 1 \/ ~IsWhitespace(text[j]))

\* /^<svg[\s\S]*<\/svg>\s*$/i or /^<\?xml[\s\S]*\?>\s*<svg[\s\S]*<\/svg>\s*$/i
\* on a trimmed text in upper case
HasSvgRoot(upper) ==
  /\ Len(upper) >= 6
  /\ startsWith(upper, "</SVG>", Len(upper) - 5)
  /\ \/ startsWith(upper, "<SVG", 1) /\ Len(upper) >= 10
     \/ /\ startsWith(upper, "<?XML", 1)
        /\ \E i \in 6..Len(upper) :
             /\ startsWith(upper, "?>", i)
             /\ startsWith(upper, "<SVG", SkipWhitespace(upper, i + 2))
             /\ SkipWhitespace(upper, i + 2) + 4 <= Len(upper) - 5

\* blockedPatterns.some((pattern) => pattern.test(svg)), on the text in upper case
HasBlockedPattern(upper) ==
  \E i \in 1..Len(upper) :
    \/ \E tag \in {"<SCRIPT", "<FOREIGNOBJECT", "<IFRAME", "<OBJECT", "<EMBED"} :
         /\ startsWith(upper, tag, i)
         /\ i + Len(tag) <= Len(upper)
         /\ (IsWhitespace(upper[i + Len(tag)]) \/ upper[i + Len(tag)] = ">")
    \/ startsWith(upper, "<!ENTITY", i)
    \/ /\ IsWhitespace(upper[i])
       /\ startsWith(upper, "ON", i + 1)
       /\ \E j \in i + 4..Len(upper) :
            /\ \A k \in i + 3..j - 1 : IsWordChar(upper[k]) \/ upper[k] = "-"
            /\ SkipWhitespace(upper, j) <= Len(upper)
            /\ upper[SkipWhitespace(upper, j)] = "="
    \/ /\ startsWith(upper, "HREF", i)
       /\ SkipWhitespace(upper, i + 4) <= Len(upper)
       /\ upper[SkipWhitespace(upper, i + 4)] = "="
       /\ SkipWhitespace(upper, SkipWhitespace(upper, i + 4) + 1) <= Len(upper)
       /\ upper[SkipWhitespace(upper, SkipWhitespace(upper, i + 4) + 1)] \in {"\"", "'"}
       /\ startsWith(upper, "JAVASCRIPT:",
                     SkipWhitespace(upper, SkipWhitespace(upper, SkipWhitespace(upper, i + 4) + 1) + 1))

\* 50 * 1024; every character of the texts here is one byte
MAX_ROBOT_IMAGE_SVG_BYTES == 51200

NormalizedSvg(svg) ==
  IF svg = << >> THEN Thrown(0, "robotImageSvg must not be empty")
  ELSE IF Len(svg) > MAX_ROBOT_IMAGE_SVG_BYTES THEN Thrown(0, "robotImageSvg is too large")
  ELSE IF ~HasSvgRoot(toUpperCase(svg))
    THEN Thrown(0, "robotImageSvg must be a complete SVG document with <svg> root")
  ELSE IF HasBlockedPattern(toUpperCase(svg))
    THEN Thrown(0, "robotImageSvg contains unsupported or unsafe markup")
  ELSE Returned(svg)

normalizeRobotImageSvg(svgInput) == NormalizedSvg(trim(svgInput.chars))

rpcSuccess(content) == [error |-> FALSE, code |-> 0, message |-> "", result |-> content]
rpcError(code, message) == [error |-> TRUE, code |-> code, message |-> message, result |-> ""]

\* the id of db.collection("robots").doc(): one no document has yet
NewRobotId(written) == "robot" \o ToString(Cardinality(written.robots) + 1)

\* createRobot from line 425 on.  saved tells which of the two file saves and
\* the document write succeed; a failed write rejects and nothing after the
\* await that waits for it runs.
SaveRobot(written, saved) ==
  LET files == written.files
                 \cup (IF saved.script THEN {"robots/" \o NewRobotId(written) \o "/script.txt"} ELSE {})
                 \cup (IF saved.avatar THEN {"robots/" \o NewRobotId(written) \o "/avatar.svg"} ELSE {})
  IN IF ~(saved.script /\ saved.avatar)
       THEN [outcome |-> Thrown(0, "save failed"), store |-> [written EXCEPT !.files = files]]
     ELSE IF ~saved.document
       THEN [outcome |-> Thrown(0, "set failed"), store |-> [written EXCEPT !.files = files]]
     ELSE [outcome |-> Returned(NewRobotId(written)),
           store |-> [files |-> files, robots |-> written.robots \cup {NewRobotId(written)}]]

\* createRobot after ROBOT_UPLOAD_SCHEMA.parse, which accepts what
\* MCP_ROBOT_UPLOAD_SCHEMA.parse returned
createRobot(robotPayload, written, saved) ==
  LET Normalized(parsedProgram, robotImageSvg) ==
        IF parsedProgram.threw THEN [outcome |-> parsedProgram, store |-> written]
        ELSE IF robotImageSvg.threw THEN [outcome |-> robotImageSvg, store |-> written]
        ELSE SaveRobot(written, saved)
  IN Normalized(parseRobotScript(robotPayload.script),
                normalizeRobotImageSvg(robotPayload.robotImageSvg))

\* `if (toolName === "upload_robot_script")` of handleMcpRequest, and the
\* catch around it
UploadRobotScript(args, written, saved) ==
  LET Created(created) ==
        IF created.outcome.threw
          THEN [response |-> rpcError(-32000, "Tool execution failed"), store |-> created.store]
        ELSE [response |-> rpcSuccess("Robot uploaded to mcp-arena."), store |-> created.store]
  IN IF args.userApprovalConfirmed # Bool(TRUE)
       THEN [response |-> rpcError(-32602, "Upload blocked: ask user for final approval first, then set userApprovalConfirmed=true"),
             store |-> written]
     ELSE IF ~MCP_ROBOT_UPLOAD_SCHEMA(args)
       THEN [response |-> rpcError(-32602, "Invalid tool arguments"), store |-> written]
     ELSE Created(createRobot(args, written, saved))

\* handleMcpRequest taking any userApprovalConfirmed that is not falsy for an
\* approval
handleMcpRequestTruthyApproval(body, written, saved) ==
  IF body.method = "" THEN [response |-> rpcError(-32600, "Invalid Request"), store |-> written]
  ELSE IF body.method \in {"initialize", "tools/list"}
    THEN [response |-> rpcSuccess(body.method), store |-> written]
  ELSE IF body.method # "tools/call"
    THEN [response |-> rpcError(-32601, "Method not found: " \o body.method), store |-> written]
  ELSE IF body.name \in {"get_arena_rules", "get_build_flow"}
    THEN [response |-> rpcSuccess("guide"), store |-> written]
  ELSE IF body.name = "upload_robot_script"
    THEN UploadRobotScript(
           [body.arguments EXCEPT
              !.userApprovalConfirmed =
                IF @ \in {Bool(FALSE), NullValue, UndefinedValue, Num(0), Str(<< >>)}
                  THEN @ ELSE Bool(TRUE)],
           written, saved)
  ELSE [response |-> rpcError(-32602, "Unknown tool: " \o body.name), store |-> written]

\* handleMcpRequest for the methods and tools that take no schema-checked
\* arguments, and for upload_robot_script
handleMcpRequest(body, written, saved) ==
  IF body.method = "" THEN [response |-> rpcError(-32600, "Invalid Request"), store |-> written]
  ELSE IF body.method \in {"initialize", "tools/list"}
    THEN [response |-> rpcSuccess(body.method), store |-> written]
  ELSE IF body.method # "tools/call"
    THEN [response |-> rpcError(-32601, "Method not found: " \o body.method), store |-> written]
  ELSE IF body.name \in {"get_arena_rules", "get_build_flow"}
    THEN [response |-> rpcSuccess("guide"), store |-> written]
  ELSE IF body.name = "upload_robot_script"
    THEN UploadRobotScript(body.arguments, written, saved)
  ELSE [response |-> rpcError(-32602, "Unknown tool: " \o body.name), store |-> written]

\* what a caller may send as userApprovalConfirmed
ApprovalInputs ==
  {Bool(TRUE), Bool(FALSE), UndefinedValue, NullValue, Num(Scale), Str(<<"t", "r", "u", "e">>)}

SvgInputs ==
  {Str(<<"<", "s", "v", "g", ">", "<", "/", "s", "v", "g", ">">>), Str(<<"<", "?", "x", "m", "l", "?", ">", " ", "<", "s", "v", "g", "/", ">", "<", "/", "s", "v", "g", ">">>), Str(<<" ">>), Str(<<"<", "p", ">", "<", "/", "p", ">">>), Str(<<"<", "s", "v", "g", ">", "<", "s", "c", "r", "i", "p", "t", ">", "<", "/", "s", "v", "g", ">">>), Str(<<"<", "s", "v", "g", " ", "o", "n", "l", "o", "a", "d", "=", "x", ">", "<", "/", "s", "v", "g", ">">>)}

McpArguments ==
  {[userApprovalConfirmed |-> approval, robotName |-> robotName,
    collaboratorAgents |-> agents, script |-> script, robotImageSvg |-> svg] :
     approval \in ApprovalInputs,
     robotName \in {Str(<<"R">>), Str(<< >>)},
     agents \in {<< >>, <<[name |-> Str(<<"a">>), version |-> Str(<<"1">>)]>>},
     script \in {Str(<<"F", "I", "R", "E">>), Str(<<"J", "U", "M", "P">>)},
     svg \in SvgInputs}

McpRequests ==
  {[method |-> "tools/call", name |-> "upload_robot_script", arguments |-> args] :
     args \in McpArguments}
    \cup {[method |-> method, name |-> name, arguments |-> args] :
            method \in {"", "initialize", "tools/list", "tools/call", "resources/list"},
            name \in {"get_arena_rules", "delete_robot"},
            args \in {a \in McpArguments :
                        /\ a.robotName = Str(<<"R">>) /\ a.collaboratorAgents # << >>
                        /\ a.script = Str(<<"F", "I", "R", "E">>) /\ a.robotImageSvg = Str(<<"<", "s", "v", "g", ">", "<", "/", "s", "v", "g", ">">>)}}

McpInit ==
  /\ arenaSize = MIN_ARENA_SIZE
  /\ tickLimit = DefaultMaxTicks
  /\ programs = [slot \in Slots |-> IdleProgram]
  /\ request \in McpRequests
  /\ robots = InitialRobots(RobotIdOf.robotA, RobotIdOf.robotB, arenaSize)
  /\ activeProjectiles = << >>
  /\ tick = 0
  /\ ticks = << >>
  /\ pc = "mcp"
  /\ result = NoResult
  /\ decision = NoDecision
  /\ locals = NoLocals
  /\ store \in {NoStore,
                [files |-> {"robots/robot1/script.txt", "robots/robot1/avatar.svg"},
                 robots |-> {"robot1"}]}

\* handleMcpRequest(body), with each write succeeding or failing
HandleMcpRequest ==
  /\ pc = "mcp"
  /\ \E saved \in [script : BOOLEAN, avatar : BOOLEAN, document : BOOLEAN] :
       \E handled \in {handleMcpRequest(request, store, saved)} :
         /\ result' = handled.response
         /\ store' = handled.store
  /\ pc' = "answered"
  /\ UNCHANGED <<arenaSize, tickLimit, programs, robots, activeProjectiles, tick, ticks,
                 request, decision, locals>>

McpNext == HandleMcpRequest

McpSpec == McpInit /\ [][McpNext]_vars

\* ---------------------------------------------------------------- one-line scripts
\* Condition texts without a top-level AND or OR, each with the condition it
\* states.
ConditionAtoms ==
  <<\* "ENEMY_VISIBLE"
    [text |-> <<"E", "N", "E", "M", "Y", "_", "V", "I", "S", "I", "B", "L",
                "E">>,
     condition |-> Visibility(TRUE)],
    \* "1>2"
    [text |-> <<"1", ">", "2">>,
     condition |-> Compare(Literal(Scale), ">", Literal(2 * Scale))],
    \* "(2<1)"
    [text |-> <<"(", "2", "<", "1", ")">>,
     condition |-> Compare(Literal(2 * Scale), "<", Literal(Scale))],
    \* "not 1=1"
    [text |-> <<"n", "o", "t", " ", "1", "=", "1">>,
     condition |-> Not(Compare(Literal(Scale), "==", Literal(Scale)))],
    \* "(1>2 or 2>1)"
    [text |-> <<"(", "1", ">", "2", " ", "o", "r", " ", "2", ">", "1", ")">>,
     condition |-> Logical("OR", Compare(Literal(Scale), ">", Literal(2 * Scale)),
                          Compare(Literal(2 * Scale), ">", Literal(Scale)))]>>

\* Value tokens of a SET command: whether the token is a numeric literal (an
\* optional sign, digits with an optional fraction, an optional exponent and
\* nothing else), and the number it writes in units of 1 / (10 x Scale).
ValueTokens ==
  <<\* "1"
    [text |-> <<"1">>, wellFormed |-> TRUE, value |-> 100000],
    \* "-1"
    [text |-> <<"-", "1">>, wellFormed |-> TRUE, value |-> -100000],
    \* "0.5"
    [text |-> <<"0", ".", "5">>, wellFormed |-> TRUE, value |-> 50000],
    \* "-0.25"
    [text |-> <<"-", "0", ".", "2", "5">>, wellFormed |-> TRUE, value |-> -25000],
    \* "0"
    [text |-> <<"0">>, wellFormed |-> TRUE, value |-> 0],
    \* "1e0"
    [text |-> <<"1", "e", "0">>, wellFormed |-> TRUE, value |-> 100000],
    \* "5e-1"
    [text |-> <<"5", "e", "-", "1">>, wellFormed |-> TRUE, value |-> 50000],
    \* "0.99999"
    [text |-> <<"0", ".", "9", "9", "9", "9", "9">>, wellFormed |-> TRUE, value |-> 99999],
    \* "2"
    [text |-> <<"2">>, wellFormed |-> TRUE, value |-> 200000],
    \* "-2"
    [text |-> <<"-", "2">>, wellFormed |-> TRUE, value |-> -200000],
    \* "1.0001"
    [text |-> <<"1", ".", "0", "0", "0", "1">>, wellFormed |-> TRUE, value |-> 100010],
    \* "-1.5"
    [text |-> <<"-", "1", ".", "5">>, wellFormed |-> TRUE, value |-> -150000],
    \* "1e1"
    [text |-> <<"1", "e", "1">>, wellFormed |-> TRUE, value |-> 1000000],
    \* "1.00001"
    [text |-> <<"1", ".", "0", "0", "0", "0", "1">>, wellFormed |-> TRUE, value |-> 100001],
    \* "0.5abc"
    [text |-> <<"0", ".", "5", "a", "b", "c">>, wellFormed |-> FALSE, value |-> 0],
    \* "1x"
    [text |-> <<"1", "x">>, wellFormed |-> FALSE, value |-> 0],
    \* "abc"
    [text |-> <<"a", "b", "c">>, wellFormed |-> FALSE, value |-> 0],
    \* "0.5.5"
    [text |-> <<"0", ".", "5", ".", "5">>, wellFormed |-> FALSE, value |-> 0],
    \* "--1"
    [text |-> <<"-", "-", "1">>, wellFormed |-> FALSE, value |-> 0],
    \* "1,5"
    [text |-> <<"1", ",", "5">>, wellFormed |-> FALSE, value |-> 0],
    \* "2abc"
    [text |-> <<"2", "a", "b", "c">>, wellFormed |-> FALSE, value |-> 0],
    \* "1e"
    [text |-> <<"1", "e">>, wellFormed |-> FALSE, value |-> 0]>>

ControlFields == <<"THROTTLE", "STRAFE", "TURN">>
ControlFieldTexts ==
  <<<<"T", "H", "R", "O", "T", "T", "L", "E">>,
    <<"s", "t", "r", "a", "f", "e">>,
    <<"T", "u", "r", "n">>>>

\* the condition texts written from three atoms
ConditionForms ==
  {"NOT a AND b OR c", "NOT (a OR b)", "a OR b AND c", "a AND b AND c", "a OR b OR c",
   "(a OR b) AND c"}

FormText(form, a, b, c) ==
  IF form = "NOT a AND b OR c"
    THEN <<"N", "O", "T", " ">> \o a \o <<" ", "A", "N", "D", " ">> \o b \o <<" ", "O", "R", " ">> \o c
  ELSE IF form = "NOT (a OR b)"
    THEN <<"N", "O", "T", " ", "(">> \o a \o <<" ", "O", "R", " ">> \o b \o <<")">>
  ELSE IF form = "a OR b AND c"
    THEN a \o <<" ", "O", "R", " ">> \o b \o <<" ", "a", "n", "d", " ">> \o c
  ELSE IF form = "a AND b AND c"
    THEN a \o <<" ", "A", "N", "D", " ">> \o b \o <<" ", "A", "N", "D", " ">> \o c
  ELSE IF form = "a OR b OR c"
    THEN a \o <<" ", "O", "R", " ">> \o b \o <<" ", "o", "r", " ">> \o c
  ELSE <<"(">> \o a \o <<" ", "O", "R", " ">> \o b \o <<")", " ", "A", "N", "D", " ">> \o c

\* the longest condition text of the one-line scripts, in characters
MaxConditionLength == 32

\* the forms and atoms whose condition text is no longer than
\* MaxConditionLength
ShortConditions ==
  {t \in ConditionForms \X (1..Len(ConditionAtoms)) \X (1..Len(ConditionAtoms))
         \X (1..Len(ConditionAtoms)) :
     Len(FormText(t[1], ConditionAtoms[t[2]].text, ConditionAtoms[t[3]].text,
                  ConditionAtoms[t[4]].text)) <= MaxConditionLength}

\* "IF <condition> THEN FIRE" for every short condition, and
\* "SET <field> <token>" for every field and every value token
LineRequests ==
  {[scriptText |-> Str(<<"I", "F", " ">>
                         \o FormText(t[1], ConditionAtoms[t[2]].text,
                                     ConditionAtoms[t[3]].text, ConditionAtoms[t[4]].text)
                         \o <<" ", "T", "H", "E", "N", " ", "F", "I", "R", "E">>),
    lines |-> << >>, form |-> t[1], a |-> t[2], b |-> t[3], c |-> t[4]] :
     t \in ShortConditions}
    \cup
  {[scriptText |-> Str(<<"S", "E", "T", " ">> \o ControlFieldTexts[field] \o <<" ">>
                         \o ValueTokens[token].text),
    lines |-> << >>, form |-> "SET", a |-> token, b |-> field, c |-> 0] :
     token \in 1..Len(ValueTokens), field \in 1..Len(ControlFields)}

LineInit ==
  /\ arenaSize = MIN_ARENA_SIZE
  /\ tickLimit = DefaultMaxTicks
  /\ programs = [slot \in Slots |-> IdleProgram]
  /\ request \in LineRequests
  /\ robots = InitialRobots(RobotIdOf.robotA, RobotIdOf.robotB, arenaSize)
  /\ activeProjectiles = << >>
  /\ tick = 0
  /\ ticks = << >>
  /\ pc = "parse"
  /\ result = NoResult
  /\ decision = NoDecision
  /\ locals = NoLocals
  /\ store = NoStore

LineNext == ParseRobotScript

LineSpec == LineInit /\ [][LineNext]_vars


\* ---------------------------------------------------------------- the stdio bridge
\* The bridge reads framed JSON-RPC messages from stdin and writes framed
\* responses to stdout.  `request` holds the frames the client sends, in
\* order; `locals` holds how far stdin was read (next: the first frame not yet
\* taken from `buffered`; partial: `buffered` holds the beginning of that
\* frame) and the frames whose fetch has not settled; `result` is what was
\* written to stdout; pc is "running" until the process exits.
MaxFrames == 2

\* the most frames one chunk of stdin completes
MaxChunk == 2

\* the bodies of the frames: text that is not JSON, the JSON literal null, or
\* an object with or without an id, with jsonrpc "2.0" or not, and a method
FrameKinds ==
  {[body |-> "garbled", hasId |-> FALSE, idIsNull |-> FALSE, jsonrpc |-> FALSE, method |-> "none"],
   [body |-> "null", hasId |-> FALSE, idIsNull |-> FALSE, jsonrpc |-> FALSE, method |-> "none"]}
    \cup
  {[body |-> "object", hasId |-> hasId, idIsNull |-> FALSE, jsonrpc |-> TRUE, method |-> method] :
     hasId \in BOOLEAN,
     method \in {"notifications/initialized", "initialize", "ping", "tools/list", "tools/call",
                 "resources/list"}}
    \cup
  {[body |-> "object", hasId |-> TRUE, idIsNull |-> TRUE, jsonrpc |-> TRUE, method |-> "ping"],
   [body |-> "object", hasId |-> TRUE, idIsNull |-> FALSE, jsonrpc |-> FALSE, method |-> "ping"],
   [body |-> "object", hasId |-> FALSE, idIsNull |-> FALSE, jsonrpc |-> FALSE, method |-> "ping"]}

\* request.id of the frame at index i: the clients number their requests
IdOf(i) ==
  IF ~request[i].hasId THEN UndefinedValue
  ELSE IF request[i].idIsNull THEN NullValue
  ELSE Num(i)

\* rpcResult and rpcError of the bridge: the id and the error code (0: a result)
bridgeRpcResult(id) == [id |-> id, code |-> 0]
bridgeRpcError(id, code) == [id |-> id, code |-> code]

\* handleMessage(request) for a body that is an object: the payload it
\* resolves to without awaiting (null: "none"), or "forward" where it awaits
\* callArenaMcp
handleMessage(i) ==
  LET id == IF IdOf(i) = UndefinedValue THEN NullValue ELSE IdOf(i)
  IN IF ~request[i].jsonrpc THEN [kind |-> "payload", payload |-> bridgeRpcError(id, -32600)]
     ELSE IF request[i].method = "notifications/initialized" THEN [kind |-> "none"]
     ELSE IF request[i].method \in {"initialize", "ping"}
       THEN [kind |-> "payload", payload |-> bridgeRpcResult(id)]
     ELSE IF request[i].method \in {"tools/list", "tools/call"} THEN [kind |-> "forward"]
     ELSE [kind |-> "payload", payload |-> bridgeRpcError(id, -32601)]

\* the test of the then-callback of processBuffer with a payload at hand,
\* written for every request
WritesAlways(i) == TRUE

\* the test of the then-callback of processBuffer with a payload at hand
\* (line 172) and of its catch-callback (line 177)
WritesResponse(i) == IdOf(i) # UndefinedValue

\* writeMessage(payload); `of` is the frame the payload answers
writeMessage(stdout, payload, i) == Append(stdout, [id |-> payload.id, code |-> payload.code, of |-> i])

\* what processBuffer writes while it loops over the frames first..last: the
\* parse errors
RECURSIVE WrittenInLoop(_, _, _)
WrittenInLoop(stdout, first, last) ==
  IF first > last THEN stdout
  ELSE WrittenInLoop(IF request[first].body = "garbled"
                       THEN writeMessage(stdout, bridgeRpcError(NullValue, -32700), first)
                     ELSE stdout,
                     first + 1, last)

\* what the then-callbacks of the frames first..last write once the loop has
\* returned: the payloads handleMessage resolved to without awaiting
RECURSIVE WrittenByCallbacks(_, _, _)
WrittenByCallbacks(stdout, first, last) ==
  IF first > last THEN stdout
  ELSE WrittenByCallbacks(IF /\ request[first].body = "object"
                             /\ handleMessage(first).kind = "payload"
                             /\ WritesResponse(first)
                            THEN writeMessage(stdout, handleMessage(first).payload, first)
                          ELSE stdout,
                          first + 1, last)

\* the frames among first..last for which handleMessage awaits the fetch
Forwarded(first, last) ==
  {i \in first..last : request[i].body = "object" /\ handleMessage(i).kind = "forward"}

BridgeInit ==
  /\ arenaSize = MIN_ARENA_SIZE
  /\ tickLimit = DefaultMaxTicks
  /\ programs = [slot \in Slots |-> IdleProgram]
  /\ request \in UNION {[1..n -> FrameKinds] : n \in 1..MaxFrames}
  /\ robots = InitialRobots(RobotIdOf.robotA, RobotIdOf.robotB, arenaSize)
  /\ activeProjectiles = << >>
  /\ tick = 0
  /\ ticks = << >>
  /\ pc = "running"
  /\ result = << >>
  /\ decision = NoDecision
  /\ locals = [next |-> 1, partial |-> FALSE, pending |-> {}]
  /\ store = NoStore

\* the "data" handler of stdin with a chunk that completes the next `frames`
\* frames and may hold the beginning of one more: processBuffer, and the
\* callbacks of the promises that are settled when it returns.  For the body
\* null handleMessage throws on request.id and so does the catch-callback:
\* the rejection is unhandled, which ends the process or not, by the runtime.
OnData ==
  /\ pc = "running"
  /\ \E frames \in 0..MaxChunk, partial \in BOOLEAN :
       /\ locals.next + frames - 1 <= Len(request)
       /\ partial => locals.next + frames <= Len(request)
       /\ frames > 0 \/ (partial /\ ~locals.partial)
       /\ result' = WrittenByCallbacks(
                       WrittenInLoop(result, locals.next, locals.next + frames - 1),
                       locals.next, locals.next + frames - 1)
       /\ locals' = [next |-> locals.next + frames,
                     partial |-> partial,
                     pending |-> locals.pending
                                   \cup Forwarded(locals.next, locals.next + frames - 1)]
       /\ \/ pc' = "running"
          \/ /\ \E i \in locals.next..locals.next + frames - 1 : request[i].body = "null"
             /\ pc' = "exited"
  /\ UNCHANGED <<arenaSize, tickLimit, programs, robots, activeProjectiles, tick, ticks,
                 request, decision, store>>

\* the fetch of callArenaMcp settles: handleMessage resolves to the result or,
\* where callArenaMcp throws, to the error -32000, and the then-callback runs
FetchSettles ==
  /\ pc = "running"
  /\ \E i \in locals.pending :
       \E payload \in {bridgeRpcResult(IdOf(i)), bridgeRpcError(IdOf(i), -32000)} :
       /\ result' = IF WritesResponse(i) THEN writeMessage(result, payload, i) ELSE result
       /\ locals' = [locals EXCEPT !.pending = locals.pending \ {i}]
  /\ UNCHANGED <<arenaSize, tickLimit, programs, robots, activeProjectiles, tick, ticks,
                 pc, request, decision, store>>

\* the "end" handler of stdin and the SIGINT handler: process.exit(0)
OnEnd ==
  /\ pc = "running"
  /\ pc' = "exited"
  /\ UNCHANGED <<arenaSize, tickLimit, programs, robots, activeProjectiles, tick, ticks,
                 result, request, decision, locals, store>>

BridgeNext == OnData \/ FetchSettles \/ OnEnd

BridgeSpec == BridgeInit /\ [][BridgeNext]_vars

\* a fetch that was started settles while the process runs
FairBridgeSpec == BridgeSpec /\ WF_vars(FetchSettles)

\* ---------------------------------------------------------------- placed duels
\* The tick loop of simulateBattle entered with the robots where a scenario
\* puts them: the corner start of the code, and placements on one row that a
\* battle reaches by driving.

\* SET TURN -1 / FIRE ON: from the corner start the gun turns onto the wall
WallGunnerProgram ==
  <<Rule(1, NoCondition, SetControl("TURN", -Scale)),
    Rule(2, NoCondition, Fire(TRUE))>>

\* SET TURN 1
SpinnerProgram == <<Rule(1, NoCondition, SetControl("TURN", Scale))>>

\* SET THROTTLE 1
AdvanceProgram == <<Rule(1, NoCondition, SetControl("THROTTLE", Scale))>>

\* SET TURN 0.5 / SET STRAFE 1
DrifterProgram ==
  <<Rule(1, NoCondition, SetControl("TURN", Scale \div 2)),
    Rule(2, NoCondition, SetControl("STRAFE", Scale))>>

\* SET THROTTLE -1 / SET STRAFE 0.5 / SET TURN 1 / FIRE ON
FightingRetreatProgram ==
  <<Rule(1, NoCondition, SetControl("THROTTLE", -Scale)),
    Rule(2, NoCondition, SetControl("STRAFE", Scale \div 2)),
    Rule(3, NoCondition, SetControl("TURN", Scale)),
    Rule(4, NoCondition, Fire(TRUE))>>

\* IF SELF_ENERGY >= 35 THEN FIRE ON / IF SELF_ENERGY >= 35 THEN BOOST RIGHT
SurgeProgram ==
  <<Rule(1, Compare(Sensor("SELF_ENERGY"), ">=", Literal(35 * Scale)), Fire(TRUE)),
    Rule(2, Compare(Sensor("SELF_ENERGY"), ">=", Literal(35 * Scale)), Boost("RIGHT"))>>

DuelPrograms ==
  {IdleProgram, GunnerProgram, WallGunnerProgram, SpinnerProgram, AdvanceProgram,
   RetreatProgram, DrifterProgram, FightingRetreatProgram, SurgeProgram}

MaxDuelTicks == 60
DuelArena == 10

Placed(x, y, direction) == [x |-> x * Scale, y |-> y * Scale, direction |-> direction]

\* arena size and the two start poses
DuelPlacements ==
  {[size |-> MIN_ARENA_SIZE + 1, a |-> Placed(0, 0, "E"),
    b |-> Placed(MIN_ARENA_SIZE, MIN_ARENA_SIZE, "W")],
   [size |-> DuelArena, a |-> Placed(3, 5, "E"), b |-> Placed(7, 5, "W")],
   [size |-> DuelArena, a |-> Placed(0, 5, "W"), b |-> Placed(1, 5, "W")],
   [size |-> DEFAULT_ARENA_SIZE, a |-> Placed(0, 0, "E"),
    b |-> Placed(DEFAULT_ARENA_SIZE - 1, DEFAULT_ARENA_SIZE - 1, "W")]}

PlacedRobots(robotAId, robotBId, placement) ==
  LET a == buildRobotState(robotAId, placement.a.x, placement.a.y, placement.a.direction)
      b == buildRobotState(robotBId, placement.b.x, placement.b.y, placement.b.direction)
  IN [robotA |-> updateEnemyMemory(a, b, buildPerception(a, b, placement.size)),
      robotB |-> updateEnemyMemory(b, a, buildPerception(b, a, placement.size))]

DuelInit ==
  /\ \E placement \in DuelPlacements :
        /\ arenaSize = placement.size
        /\ robots = PlacedRobots(RobotIdOf.robotA, RobotIdOf.robotB, placement)
  /\ tickLimit = MaxDuelTicks
  /\ programs \in [Slots -> DuelPrograms]
  /\ request = [robotAId |-> RobotIdOf.robotA, robotBId |-> RobotIdOf.robotB,
                arenaSize |-> Num(arenaSize), maxTicks |-> Num(tickLimit),
                maxTurns |-> UndefinedValue]
  /\ activeProjectiles = << >>
  /\ tick = 0
  /\ ticks = << >>
  /\ pc = "loop"
  /\ result = NoResult
  /\ decision = NoDecision
  /\ locals = NoLocals
  /\ store = NoStore

DuelSpec == DuelInit /\ [][Tick]_vars

\* ---------------------------------------------------------------- rotation in radians
\* The battle above holds a heading in tenths of a degree.  The code holds it
\* in radians, in a double, and adds a rounded increment to it in every tick.
\* Here the doubles of computeRotation are held exactly: a value is a number
\* of units of 2^-58, written in four digits of 16 bits, lowest first.  Every
\* double met here, from 2^-6 up to 8, is a whole number of these units.

Digit == 256 * 256

\* Math.PI * 2
TwoPiRad == <<6144, 17453, 64340, 6433>>

\* headingByDirection: (DIRECTION_ANGLE_DEG[direction] * Math.PI) / 180
headingRadByDirection ==
  [E |-> <<0, 0, 0, 0>>,
   S |-> <<17920, 4363, 32469, 1608>>,
   W |-> <<35840, 8726, 64938, 3216>>,
   N |-> <<53760, 13089, 31871, 4825>>]

\* TURN_RATE_RAD_PER_SECOND * (TICK_DURATION_MS / 1000) = 0.10471975511965977
TurnPerTickRad == <<44884, 52719, 15271, 107>>

BigCarry(d0, d1, d2, d3) ==
  <<d0 % Digit,
    (d1 + d0 \div Digit) % Digit,
    (d2 + (d1 + d0 \div Digit) \div Digit) % Digit,
    d3 + (d2 + (d1 + d0 \div Digit) \div Digit) \div Digit>>

BigAdd(a, b) == BigCarry(a[1] + b[1], a[2] + b[2], a[3] + b[3], a[4] + b[4])

\* a - b for a >= b: the digits of a - b are those of a + (Digit^4 - b)
\* without the carry out of the highest digit
BigSub(a, b) ==
  BigCarry(a[1] + Digit - b[1], a[2] + Digit - 1 - b[2], a[3] + Digit - 1 - b[3],
           a[4] + Digit - 1 - b[4] - Digit)

BigTimes(a, n) == BigCarry(a[1] * n, a[2] * n, a[3] * n, a[4] * n)

BigLess(a, b) ==
  \/ a[4] < b[4]
  \/ a[4] = b[4] /\ a[3] < b[3]
  \/ a[4] = b[4] /\ a[3] = b[3] /\ a[2] < b[2]
  \/ a[4] = b[4] /\ a[3] = b[3] /\ a[2] = b[2] /\ a[1] < b[1]

\* half of an even number of units: a multiplication by 0.5 is exact
BigHalf(a) ==
  <<a[1] \div 2 + (a[2] % 2) * (Digit \div 2),
    a[2] \div 2 + (a[3] % 2) * (Digit \div 2),
    a[3] \div 2 + (a[4] % 2) * (Digit \div 2),
    a[4] \div 2>>

\* the number of low bits a double cannot hold: a double has 53 significant
\* bits, and bit 48 + j is the top bit of a value whose highest digit is in
\* [2^j, 2^(j+1))
BitsDropped(a) ==
  IF a[4] >= 4096 THEN 8 ELSE IF a[4] >= 2048 THEN 7 ELSE IF a[4] >= 1024 THEN 6
  ELSE IF a[4] >= 512 THEN 5 ELSE IF a[4] >= 256 THEN 4 ELSE IF a[4] >= 128 THEN 3
  ELSE IF a[4] >= 64 THEN 2 ELSE IF a[4] >= 32 THEN 1 ELSE 0

\* the exact value rounded to a double: to the nearest, a tie to the even one
RoundToDouble(a) ==
  LET grain == 2 ^ BitsDropped(a)
      rest == a[1] % grain
      down == <<a[1] - rest, a[2], a[3], a[4]>>
  IN IF rest * 2 > grain \/ (rest * 2 = grain /\ (a[1] \div grain) % 2 = 1)
     THEN BigAdd(down, <<grain, 0, 0, 0>>)
     ELSE down

\* controls.turn * TURN_RATE_RAD_PER_SECOND * turnMultiplier * (TICK_DURATION_MS / 1000)
\* without its sign, for a turn of 1 or 0.5 either way
deltaRadSize(controls) ==
  IF Abs(controls.turn) = Scale
  THEN (IF controls.fire THEN BigHalf(TurnPerTickRad) ELSE TurnPerTickRad)
  ELSE (IF controls.fire THEN BigHalf(BigHalf(TurnPerTickRad)) ELSE BigHalf(TurnPerTickRad))

\* normalizeAngleRad(headingRad + deltaRad) for a heading in [0, 2 pi): the
\* sum is rounded; a sum of 2 pi or more loses 2 pi, exactly; a sum below 0
\* gains 2 pi and is rounded again
normalizeAngleSum(headingRad, size, negative) ==
  IF ~negative
  THEN (IF BigLess(RoundToDouble(BigAdd(headingRad, size)), TwoPiRad)
        THEN RoundToDouble(BigAdd(headingRad, size))
        ELSE BigSub(RoundToDouble(BigAdd(headingRad, size)), TwoPiRad))
  ELSE IF ~BigLess(headingRad, size)
  THEN RoundToDouble(BigSub(headingRad, size))
  ELSE RoundToDouble(BigSub(TwoPiRad, RoundToDouble(BigSub(size, headingRad))))

\* computeRotation turning the other way
computeRotationRadReversed(headingRad, controls) ==
  normalizeAngleSum(headingRad, deltaRadSize(controls), controls.turn > 0)

\* actor.headingRad after computeRotation
computeRotationRad(headingRad, controls) ==
  normalizeAngleSum(headingRad, deltaRadSize(controls), controls.turn < 0)

MaxRotations == 60

\* a robot facing one of the four directions, as buildRobotState leaves it,
\* under controls that stay the same
RotationInit ==
  /\ arenaSize = MIN_ARENA_SIZE
  /\ tickLimit = MaxRotations
  /\ programs = [slot \in Slots |-> IdleProgram]
  /\ request = [robotAId |-> RobotIdOf.robotA, robotBId |-> RobotIdOf.robotB,
                arenaSize |-> Num(arenaSize), maxTicks |-> Num(tickLimit),
                maxTurns |-> UndefinedValue]
  /\ robots = InitialRobots(RobotIdOf.robotA, RobotIdOf.robotB, arenaSize)
  /\ activeProjectiles = << >>
  /\ tick = 0
  /\ ticks = << >>
  /\ pc = "rotation"
  /\ result = NoResult
  /\ \E turn \in {Scale, -Scale, Scale \div 2, -(Scale \div 2)} : \E fire \in BOOLEAN :
       decision = [neutralControls EXCEPT !.turn = turn, !.fire = fire]
  /\ \E direction \in DOMAIN headingRadByDirection :
       locals = [initialRad |-> headingRadByDirection[direction],
                 beforeRad |-> headingRadByDirection[direction],
                 headingRad |-> headingRadByDirection[direction]]
  /\ store = NoStore

\* the rotation phase of one tick
ComputeRotation ==
  /\ pc = "rotation"
  /\ tick + 1 <= tickLimit
  /\ locals' = [locals EXCEPT !.beforeRad = locals.headingRad,
                              !.headingRad = computeRotationRad(locals.headingRad, decision)]
  /\ tick' = tick + 1
  /\ UNCHANGED <<arenaSize, tickLimit, programs, robots, activeProjectiles, ticks, pc,
                 result, request, decision, store>>

RotationNext == ComputeRotation

RotationSpec == RotationInit /\ [][RotationNext]_vars

\* ---------------------------------------------------------------- properties
LastTick == ticks[Len(ticks)]
BothAlive == robots.robotA.alive /\ robots.robotB.alive

\* C2: in the initial state and at the end of every tick, each robot's x and
\* y lie in [0, N - 1] for the arena size N, whatever was applied to it.
PositionsInsideArena ==
  \A slot \in Slots :
    /\ 0 <= robots[slot].x /\ robots[slot].x <= (arenaSize - 1) * Scale
    /\ 0 <= robots[slot].y /\ robots[slot].y <= (arenaSize - 1) * Scale

\* a tick in which a robot's proposed position was clamped at the boundary
ClampedAtBoundary ==
  /\ Len(ticks) > 0
  /\ \E slot \in Slots : LastTick.actions[slot].movement.hitBoundary

\* C3: at the end of every tick in which both robots are alive, their
\* centers are strictly more than 2 x ROBOT_COLLISION_RADIUS = 0.68 apart.
AliveRobotsApart ==
  BothAlive =>
    LET dx == Abs(robots.robotA.x - robots.robotB.x)
        dy == Abs(robots.robotA.y - robots.robotB.y)
    IN dx > 6800 \/ dy > 6800 \/ dx * dx + dy * dy > 6800 * 6800

\* a tick in which a robot's step was reverted because of the other robot
StepRevertedByRobot ==
  /\ Len(ticks) > 0
  /\ BothAlive
  /\ \E slot \in Slots : LastTick.actions[slot].movement.blockedByRobot

\* C4: a robot's energy stays within [0, 100] in every reachable state.
EnergyWithinRange ==
  \A slot \in Slots : 0 <= robots[slot].energy /\ robots[slot].energy <= 100 * Scale

\* a robot drained below the price of a shot, whose trigger the energy blocked
EnergyDrained ==
  /\ Len(ticks) > 0
  /\ \E slot \in Slots :
       /\ LastTick.actions[slot].firing.blockedByEnergy
       /\ robots[slot].energy < FIRE_ENERGY_COST * Scale

\* C5: over one tick a robot's energy falls strictly if it fired a shot or
\* ignited a boost in that tick, and otherwise rises by 0.25, capped at 100.
EnergyStep ==
  [][Len(ticks') > Len(ticks) =>
       \A slot \in Slots :
         LET action == ticks'[Len(ticks')].actions[slot]
             fired == action.firing.shotFired
             ignited == action.movement.boostUsed
                        /\ action.movement.boostBurstTicksRemaining = SIDE_BOOST_BURST_TICKS - 1
         IN IF fired \/ ignited
            THEN robots'[slot].energy < robots[slot].energy
            ELSE /\ robots'[slot].energy >= robots[slot].energy
                 /\ robots'[slot].energy =
                      IF robots[slot].energy + 2500 > 100 * Scale THEN 100 * Scale
                      ELSE robots[slot].energy + 2500]_vars

\* a tick in which one robot fired a shot and one ignited a boost
ShotAndIgnition ==
  /\ Len(ticks) > 0
  /\ \E slot \in Slots : LastTick.actions[slot].firing.shotFired
  /\ \E slot \in Slots :
       /\ LastTick.actions[slot].movement.boostUsed
       /\ LastTick.actions[slot].movement.boostForceLevel = SIDE_BOOST_FORCE_SEQUENCE[1]

\* C6: the status is "finished" with the survivor as winner if and only if
\* exactly one robot is alive in the final state; otherwise it is "draw"
\* with no winner.
OutcomeMatchesSurvivors ==
  pc = "done" =>
    LET a == result.finalState.robotA
        b == result.finalState.robotB
        exactlyOne == a.alive # b.alive
    IN /\ (result.status = "finished") <=> exactlyOne
       /\ exactlyOne => result.winnerRobotId = (IF a.alive THEN a.id ELSE b.id)
       /\ ~exactlyOne => result.status = "draw" /\ result.winnerRobotId = "null"

\* a battle returned with a single survivor
SingleSurvivor ==
  /\ pc = "done"
  /\ result.finalState.robotA.alive # result.finalState.robotB.alive

\* the tick log so far: at most maxTicks entries, numbered 1..k, every entry
\* but the last ending with both robots alive
TickLogShape ==
  /\ Len(ticks) <= tickLimit
  /\ \A k \in 1..Len(ticks) :
       /\ ticks[k].tick = k
       /\ k < Len(ticks) => ticks[k].endState.robotA.alive /\ ticks[k].endState.robotB.alive
  /\ pc = "done" =>
       /\ result.ticks = Len(ticks)
       /\ result.finalState.robotA.alive /\ result.finalState.robotB.alive => Len(ticks) = tickLimit

\* C7: simulateBattle terminates; it runs at most maxTicks ticks, stops right
\* after the first tick that ends with a dead robot, and logs ticks 1..k.
BattleTerminates == <>(pc = "done") /\ []TickLogShape

\* a battle that returned before the tick bound because a robot died
StoppedAtFirstDeath ==
  /\ pc = "done"
  /\ 0 < result.ticks /\ result.ticks < tickLimit
  /\ ~(result.finalState.robotA.alive /\ result.finalState.robotB.alive)

\* C8: a battle is simulated only with an arena size in [6, 40], a tick
\* bound in [20, 5000] (500 when the request gives none) and two distinct
\* robot ids; any other request is rejected before a tick runs, whether its
\* tick bound comes as maxTicks or as maxTurns.
DriverBoundsEnforced ==
  pc \in {"loop", "break", "done"} =>
    /\ 6 <= arenaSize /\ arenaSize <= 40
    /\ 20 <= tickLimit /\ tickLimit <= 5000
    /\ (~IsNum(request.maxTicks) /\ ~IsNum(request.maxTurns)) => tickLimit = 500
    /\ robots.robotA.id # robots.robotB.id

\* ---- rule evaluation
SetMax(S) == CHOOSE m \in S : \A x \in S : x <= m

ControlField(command) ==
  IF command.type = "SET_CONTROL"
  THEN (IF command.field = "THROTTLE" THEN "throttle"
        ELSE IF command.field = "STRAFE" THEN "strafe" ELSE "turn")
  ELSE IF command.type = "FIRE" THEN "fire" ELSE "boost"

ControlValue(command) ==
  IF command.type = "SET_CONTROL" THEN command.value
  ELSE IF command.type = "FIRE" THEN command.enabled ELSE command.direction

\* indexes of the rules of a robot's program whose condition matches
MatchedRules(slot) ==
  {i \in 1..Len(programs[slot]) : conditionMatched(programs[slot][i].condition, SensorsOf(slot))}

\* indexes of the matched rules that target one control field
RulesSetting(slot, field) ==
  {i \in MatchedRules(slot) : ControlField(programs[slot][i].command) = field}

\* C9: starting from throttle 0, strafe 0, turn 0, fire false, boost none,
\* each control field ends with the value of the last matched rule in
\* program order that targets it, or its neutral value; the matched rules
\* are recorded in program order, none dropped.
LastMatchWins ==
  pc = "resolved" =>
    \A slot \in Slots :
      LET controls == decision[slot].controls
          last(field) == ControlValue(programs[slot][SetMax(RulesSetting(slot, field))].command)
      IN /\ controls.throttle = IF RulesSetting(slot, "throttle") = {} THEN 0 ELSE last("throttle")
         /\ controls.strafe = IF RulesSetting(slot, "strafe") = {} THEN 0 ELSE last("strafe")
         /\ controls.turn = IF RulesSetting(slot, "turn") = {} THEN 0 ELSE last("turn")
         /\ controls.fire = IF RulesSetting(slot, "fire") = {} THEN FALSE ELSE last("fire")
         /\ controls.boost = IF RulesSetting(slot, "boost") = {} THEN "NONE" ELSE last("boost")
         /\ decision[slot].totalRules = Len(programs[slot])
         /\ decision[slot].matchedRuleLines =
              SelectSeq([i \in 1..Len(programs[slot]) |-> programs[slot][i].line],
                        LAMBDA line : line \in MatchedRules(slot))

\* two matched rules set the same field to different values
LaterRuleOverrides ==
  /\ pc = "resolved"
  /\ \E slot \in Slots : \E i, j \in MatchedRules(slot) :
       /\ i < j
       /\ ControlField(programs[slot][i].command) = ControlField(programs[slot][j].command)
       /\ ControlValue(programs[slot][i].command) # ControlValue(programs[slot][j].command)

\* an expression with an unavailable sensor, or a division by zero, in it
RECURSIVE Unavailable(_, _)
Unavailable(expression, sensors) ==
  IF expression.type = "NUMBER_LITERAL" THEN FALSE
  ELSE IF expression.type = "SENSOR" THEN ~IsNum(sensors.values[expression.variable])
  ELSE IF expression.type = "UNARY" THEN Unavailable(expression.operand, sensors)
  ELSE IF expression.type = "BINARY" THEN
    \/ Unavailable(expression.left, sensors)
    \/ Unavailable(expression.right, sensors)
    \/ /\ expression.operator = "/"
       /\ evaluateNumericExpression(expression.right, sensors) = Num(0)
  ELSE \E k \in 1..Len(expression.args) : Unavailable(expression.args[k], sensors)

\* rule i of a robot's program compares an unavailable operand
ComparesUnavailable(slot, i) ==
  LET condition == programs[slot][i].condition
  IN /\ condition.type = "COMPARE"
     /\ \/ Unavailable(condition.left, SensorsOf(slot))
        \/ Unavailable(condition.right, SensorsOf(slot))

\* C10: a Compare with an unavailable operand (an unavailable sensor, a
\* division by zero) is false for every operator, != included, and the rules
\* after it are still evaluated.
UnavailableCompareIsFalse ==
  pc = "resolved" =>
    \A slot \in Slots : \A i \in 1..Len(programs[slot]) :
      ComparesUnavailable(slot, i) =>
        /\ programs[slot][i].line \notin
             {decision[slot].matchedRuleLines[k] : k \in 1..Len(decision[slot].matchedRuleLines)}
        /\ \A j \in (i + 1)..Len(programs[slot]) :
             programs[slot][j].condition = NoCondition =>
               \E k \in 1..Len(decision[slot].matchedRuleLines) :
                 decision[slot].matchedRuleLines[k] = programs[slot][j].line

\* ENEMY_X != 0 evaluated while the enemy is not visible, before another rule
UnseenEnemyCompared ==
  /\ pc = "resolved"
  /\ \E slot \in Slots :
       /\ ~SensorsOf(slot).enemyVisible
       /\ Len(programs[slot]) > 1
       /\ programs[slot][1].condition = Compare(Sensor("ENEMY_X"), "!=", Literal(0))
       /\ ComparesUnavailable(slot, 1)
       /\ programs[slot][2].condition = NoCondition

\* the projectiles a robot spawned in the latest tick
SpawnedBy(slot) ==
  SelectSeq(locals.fireResolution.spawnedProjectiles,
            LAMBDA p : p.shooterRobotId = locals.moved[slot].id)

\* C11: an alive robot whose fire control is true does not shoot while its
\* cooldown, after the tick-down, is above 0; records blockedByEnergy and
\* keeps its energy and cooldown when the cooldown is 0 and its energy is
\* below 6; and otherwise pays 6 energy, spawns one projectile at its
\* position along its heading with range 5, records shotFired and ends the
\* tick with a cooldown of FIRE_COOLDOWN_TICKS.  A robot whose fire control is
\* false spawns no projectile.
FiringOutcomes ==
  tick > 0 =>
    \A slot \in Slots :
      LET before == locals.moved[slot]
          after == locals.fireResolution[slot]
          outcome == locals.fireResolution.outcomes[slot]
          cooled == Max2(0, before.fireCooldownTicks - 1)
      IN /\ ~locals.controls[slot].fire => SpawnedBy(slot) = << >>
         /\ before.alive /\ locals.controls[slot].fire =>
              IF cooled > 0
              THEN /\ ~outcome.shotFired
                   /\ SpawnedBy(slot) = << >>
                   /\ after.energy = before.energy
              ELSE IF before.energy < 6 * Scale
              THEN /\ ~outcome.shotFired
                   /\ outcome.blockedByEnergy
                   /\ SpawnedBy(slot) = << >>
                   /\ after.energy = before.energy
                   /\ after.fireCooldownTicks = cooled
              ELSE /\ outcome.shotFired
                   /\ ~outcome.blockedByEnergy
                   /\ after.energy = before.energy - 6 * Scale
                   /\ Len(SpawnedBy(slot)) = 1
                   /\ SpawnedBy(slot)[1].position = [x |-> before.x, y |-> before.y]
                   /\ SpawnedBy(slot)[1].direction = headingVector(before.heading)
                   /\ SpawnedBy(slot)[1].maxRange = 5 * Scale
                   /\ robots[slot].fireCooldownTicks = FIRE_COOLDOWN_TICKS

\* a tick in which one robot shot and the energy of the other blocked its shot
ShotAndBlockedShot ==
  /\ tick > 0
  /\ \E slot \in Slots :
       /\ locals.controls[slot].fire
       /\ locals.fireResolution.outcomes[slot].shotFired
       /\ Len(SpawnedBy(slot)) = 1
  /\ \E slot \in Slots :
       /\ locals.controls[slot].fire
       /\ locals.moved[slot].energy < 6 * Scale
       /\ locals.fireResolution.outcomes[slot].blockedByEnergy
\* the hit traces of a logged tick
HitTraces(log) == {i \in 1..Len(log.projectiles) : log.projectiles[i].hit}

\* C12: every projectile trace with hit = true ends at the position the
\* target has in that tick, names the target, and the target is dead in the
\* end snapshot of the tick; and a robot that is alive at the start of a
\* tick and dead at its end is the target of a hit trace of that tick.
HitsKillTheirTarget ==
  \A k \in 1..Len(ticks) :
    /\ \A i \in HitTraces(ticks[k]) :
         \E slot \in Slots :
           /\ ticks[k].projectiles[i].targetRobotId = ticks[k].endState[slot].id
           /\ ticks[k].projectiles[i].to =
                [x |-> ticks[k].endState[slot].x, y |-> ticks[k].endState[slot].y]
           /\ ~ticks[k].endState[slot].alive
    /\ \A slot \in Slots :
         ticks[k].startState[slot].alive /\ ~ticks[k].endState[slot].alive =>
           \E i \in HitTraces(ticks[k]) :
             ticks[k].projectiles[i].targetRobotId = ticks[k].endState[slot].id

\* a tick whose projectile list holds a hit trace on a robot that was alive
\* at its start
RobotShotDown ==
  /\ Len(ticks) > 0
  /\ \E i \in HitTraces(LastTick) : \E slot \in Slots :
       /\ LastTick.projectiles[i].targetRobotId = LastTick.endState[slot].id
       /\ LastTick.startState[slot].alive
       /\ ~robots[slot].alive
\* a robot as it enters the movement phase of the latest tick, after
\* tickSideBoostState and its rotation
BeforeMove(slot) == IF slot = "robotA" THEN locals.rotA.actor ELSE locals.rotB.actor

\* the preconditions of an ignition, on the robot entering the movement phase
IgnitionDue(slot) ==
  /\ BeforeMove(slot).alive
  /\ locals.controls[slot].boost # "NONE"
  /\ BeforeMove(slot).boostBurstTicksRemaining = 0
  /\ BeforeMove(slot).boostCooldownTicks = 0
  /\ BeforeMove(slot).energy >= 35 * Scale

\* C13: a side boost ignites in a tick exactly when the robot is alive, BOOST
\* is requested, no burst is in progress, the cooldown after the tick's
\* decrement is 0 and the energy is at least 35.  The ignition debits 35
\* energy, sets the cooldown to 10, starts a burst of 5 ticks, of which the
\* ignition tick consumes the first, and locks the requested direction;
\* without it the energy and the cooldown are left alone and no burst starts.
IgnitionRule ==
  tick > 0 =>
    \A slot \in Slots :
      LET before == BeforeMove(slot)
          after == locals.moved[slot]
          outcome == locals.moved.outcomes[slot]
      IN IF IgnitionDue(slot)
         THEN /\ after.energy = before.energy - 35 * Scale
              /\ after.boostCooldownTicks = 10
              /\ after.boostBurstTicksRemaining = 5 - 1
              /\ after.boostDirectionLocked = locals.controls[slot].boost
              /\ outcome.boostUsed
              /\ outcome.boostDirection = locals.controls[slot].boost
              /\ outcome.boostForceLevel = 5
         ELSE /\ after.energy = before.energy
              /\ after.boostCooldownTicks = before.boostCooldownTicks
              /\ after.boostBurstTicksRemaining = Max2(0, before.boostBurstTicksRemaining - 1)
              /\ after.boostBurstTicksRemaining > 0 =>
                   after.boostDirectionLocked = before.boostDirectionLocked

\* a tick in which one robot ignited a boost and a request of the other
\* robot was not granted
IgnitedAndRefused ==
  /\ tick > 0
  /\ \E slot \in Slots : IgnitionDue(slot) /\ locals.moved[slot].boostCooldownTicks = 10
  /\ \E slot \in Slots :
       /\ BeforeMove(slot).alive
       /\ locals.controls[slot].boost # "NONE"
       /\ ~IgnitionDue(slot)
\* the MovementOutcome of a robot in logged tick k
MovementAt(k, slot) == ticks[k].actions[slot].movement

\* level/12 tile, to 4 decimals
BoostDistanceOf(level) == RoundDiv(level * Scale, 12)

\* C14: a burst applies the force levels 5, 4, 3, 2, 1 in the ignition tick
\* and the four ticks after it, toward the side locked at the ignition, and
\* there is no boost displacement outside a burst; each level displaces the
\* robot by level/12 tile at a right angle to its heading, toward the locked
\* side, when nothing else moves or stops it, and the five distances sum to
\* 1.25 tiles.  BOOST RIGHT alone on tick 1 leaves energy 65 and cooldown 10
\* at the end of tick 1.
BurstSchedule ==
  \A slot \in Slots :
    /\ \A k \in 1..Len(ticks) :
         LET level == MovementAt(k, slot).boostForceLevel
         IN /\ MovementAt(k, slot).boostUsed <=> level \in 1..5
            /\ ~MovementAt(k, slot).boostUsed =>
                 level = 0 /\ MovementAt(k, slot).boostDistance = 0
            /\ MovementAt(k, slot).boostUsed =>
                 MovementAt(k, slot).boostDistance = BoostDistanceOf(level)
            /\ level \in 1..4 =>
                 /\ k > 1
                 /\ MovementAt(k - 1, slot).boostForceLevel = level + 1
                 /\ MovementAt(k - 1, slot).boostDirection = MovementAt(k, slot).boostDirection
            /\ level \in 2..5 /\ k < Len(ticks) =>
                 MovementAt(k + 1, slot).boostForceLevel = level - 1
            /\ level = 1 /\ k < Len(ticks) => MovementAt(k + 1, slot).boostForceLevel = 0
            /\ level = 1 =>
                 MovementAt(k, slot).boostDistance + MovementAt(k - 1, slot).boostDistance
                   + MovementAt(k - 2, slot).boostDistance + MovementAt(k - 3, slot).boostDistance
                   + MovementAt(k - 4, slot).boostDistance = 12500
    /\ tick > 0 /\ locals.moved.outcomes[slot].boostUsed
         /\ locals.controls[slot].throttle = 0 /\ locals.controls[slot].strafe = 0
         /\ ~locals.moved.outcomes[slot].hitBoundary
         /\ ~locals.moved.outcomes[slot].blockedByRobot =>
         LET outcome == locals.moved.outcomes[slot]
             forward == headingVector(locals.moved[slot].heading)
             side == IF outcome.boostDirection = "RIGHT" THEN 1 ELSE -1
         IN /\ outcome.dx * forward.dx + outcome.dy * forward.dy = 0
            /\ side * (outcome.dy * forward.dx - outcome.dx * forward.dy) > 0
            /\ outcome.distance = BoostDistanceOf(outcome.boostForceLevel)
    /\ Len(ticks) > 0 /\ ticks[1].actions[slot].controls.boost = "RIGHT"
         /\ ~ticks[1].actions[slot].controls.fire =>
         /\ ticks[1].startState[slot].energy = 100 * Scale
         /\ ticks[1].endState[slot].energy = 65 * Scale
         /\ ticks[1].endState[slot].boostCooldownTicks = 10

\* a robot that requested BOOST RIGHT on tick 1 and whose burst has run its
\* five levels, the last of them unobstructed, followed by a tick without boost
BurstCompleted ==
  /\ Len(ticks) >= 6
  /\ \E slot \in Slots :
       /\ ticks[1].actions[slot].controls.boost = "RIGHT"
       /\ \A j \in 1..5 : MovementAt(j, slot).boostForceLevel = 6 - j
       /\ \A j \in 1..5 : ~MovementAt(j, slot).hitBoundary /\ ~MovementAt(j, slot).blockedByRobot
       /\ ~MovementAt(6, slot).boostUsed
\* a BOOST request made during a burst or a cooldown
RequestOutOfTurn(slot) ==
  /\ BeforeMove(slot).alive
  /\ locals.controls[slot].boost # "NONE"
  /\ \/ BeforeMove(slot).boostBurstTicksRemaining > 0
     \/ BeforeMove(slot).boostCooldownTicks > 0

\* C15: a BOOST request made while a burst is active or the cooldown is above
\* 0 debits no energy, leaves the cooldown alone, lets the burst run down as
\* it would have and keeps the locked direction, also when it asks for the
\* other side; two ignitions of one robot are at least 10 ticks apart.
RequestsOutOfTurnIgnored ==
  \A slot \in Slots :
    /\ tick > 0 /\ RequestOutOfTurn(slot) =>
         LET before == BeforeMove(slot)
             after == locals.moved[slot]
             outcome == locals.moved.outcomes[slot]
         IN /\ after.energy = before.energy
            /\ after.boostCooldownTicks = before.boostCooldownTicks
            /\ after.boostBurstTicksRemaining = Max2(0, before.boostBurstTicksRemaining - 1)
            /\ before.boostBurstTicksRemaining > 0 =>
                 /\ outcome.boostUsed
                 /\ outcome.boostDirection = before.boostDirectionLocked
                 /\ outcome.boostForceLevel = before.boostBurstTicksRemaining
                 /\ after.boostDirectionLocked =
                      IF after.boostBurstTicksRemaining > 0 THEN before.boostDirectionLocked
                      ELSE "NONE"
            /\ before.boostBurstTicksRemaining = 0 => ~outcome.boostUsed
    /\ \A k1, k2 \in 1..Len(ticks) :
         /\ k1 < k2
         /\ MovementAt(k1, slot).boostForceLevel = 5
         /\ MovementAt(k2, slot).boostForceLevel = 5
         => k2 - k1 >= 10

\* a robot that ignited twice, ten ticks apart, and in the latest tick asks
\* for the side opposite to the one its running burst is locked to
OppositeSideRequested ==
  /\ tick > 0
  /\ \E slot \in Slots :
       /\ RequestOutOfTurn(slot)
       /\ BeforeMove(slot).boostBurstTicksRemaining > 0
       /\ locals.controls[slot].boost # BeforeMove(slot).boostDirectionLocked
       /\ \E k \in 1..Len(ticks) :
            /\ k + 10 <= Len(ticks)
            /\ MovementAt(k, slot).boostForceLevel = 5
            /\ MovementAt(k + 10, slot).boostForceLevel = 5
\* a robot at the start of the latest tick, after tickSideBoostState
AtTickStart(slot) == IF slot = "robotA" THEN locals.a1 ELSE locals.b1

\* a robot at the end of the latest tick, after the kills
AtTickEnd(slot) == IF slot = "robotA" THEN locals.a2 ELSE locals.b2

\* the traces of the latest tick that start at this position
TracesFrom(position) ==
  {i \in 1..Len(locals.projectileAdvance.traces) :
     locals.projectileAdvance.traces[i].from = position}

Activity(robot) ==
  [heading |-> robot.heading, x |-> robot.x, y |-> robot.y, energy |-> robot.energy,
   fireCooldownTicks |-> robot.fireCooldownTicks,
   boostCooldownTicks |-> robot.boostCooldownTicks,
   boostBurstTicksRemaining |-> robot.boostBurstTicksRemaining,
   boostDirectionLocked |-> robot.boostDirectionLocked]

UnseenBefore(slot) == AtTickEnd(slot).enemyMemory.ticksSinceEnemySeen
UnseenAfter(slot) == robots[slot].enemyMemory.ticksSinceEnemySeen

\* C18, as stated: after the memory update of a tick ticksSinceEnemySeen is 0
\* exactly when the enemy was visible in the end perception, and is the
\* value before the update plus 1 otherwise.
UnseenTicksCountUp ==
  tick > 0 =>
    \A slot \in Slots :
      /\ UnseenAfter(slot) = 0 <=> locals.endPerception[slot].enemyVisible
      /\ ~locals.endPerception[slot].enemyVisible => UnseenAfter(slot) = UnseenBefore(slot) + 1

\* C18, amended: after the memory update of a tick ticksSinceEnemySeen is 0
\* exactly when the enemy was visible in the end perception, and is the
\* value before the update plus 1, saturating at
\* MEMORY_UNSEEN_TICKS_INITIAL = 9999, otherwise.
UnseenTicksSaturate ==
  tick > 0 =>
    \A slot \in Slots :
      /\ UnseenAfter(slot) = 0 <=> locals.endPerception[slot].enemyVisible
      /\ ~locals.endPerception[slot].enemyVisible =>
           UnseenAfter(slot) = Min2(9999, UnseenBefore(slot) + 1)

\* the second or a later tick of a battle in which a robot has not seen
\* its enemy yet: the count is still the initial one
SaturatedCount ==
  /\ tick >= 2
  /\ \E slot \in Slots :
       /\ ~locals.endPerception[slot].enemyVisible
       /\ UnseenBefore(slot) = MEMORY_UNSEEN_TICKS_INITIAL
       /\ UnseenAfter(slot) = MEMORY_UNSEEN_TICKS_INITIAL
\* what a replay frame or a snapshot shows of a robot
Shown(snapshot) ==
  [x |-> snapshot.x, y |-> snapshot.y, direction |-> snapshot.direction,
   alive |-> snapshot.alive, energy |-> snapshot.energy]

\* C19: the returned replay has one frame per simulated tick after an
\* initial frame: frame 0 has index 0 and tick 0, shows the robots alive with
\* full energy at their start corners, facing East and West, and has no
\* projectiles or actions; frame i >= 1 has index i and tick i and shows the
\* position, direction, alive flag and energy of the end state of tick i.
OneFramePerTick ==
  pc = "done" =>
    /\ Len(result.replayFrames) = Len(ticks) + 1
    /\ result.replayFrames[1].index = 0
    /\ result.replayFrames[1].tick = 0
    /\ result.replayFrames[1].projectiles = << >>
    /\ result.replayFrames[1].actions = << >>
    /\ Shown(result.replayFrames[1].state.robotA) =
         [x |-> 0, y |-> 0, direction |-> "E", alive |-> TRUE, energy |-> 100 * Scale]
    /\ Shown(result.replayFrames[1].state.robotB) =
         [x |-> (arenaSize - 1) * Scale, y |-> (arenaSize - 1) * Scale, direction |-> "W",
          alive |-> TRUE, energy |-> 100 * Scale]
    /\ \A i \in 1..Len(ticks) :
         /\ result.replayFrames[i + 1].index = i
         /\ result.replayFrames[i + 1].tick = i
         /\ \A slot \in Slots :
              Shown(result.replayFrames[i + 1].state[slot]) = Shown(ticks[i].endState[slot])

\* a returned replay of a battle in which a robot moved, turned to another
\* direction, spent energy and died
ReplayOfEventfulBattle ==
  /\ pc = "done"
  /\ Len(result.replayFrames) > 2
  /\ \E i \in 2..Len(result.replayFrames) : \E slot \in Slots :
       /\ result.replayFrames[i].state[slot].x # result.replayFrames[i - 1].state[slot].x
       /\ result.replayFrames[i].state[slot].energy < result.replayFrames[i - 1].state[slot].energy
  /\ \E i \in 2..Len(result.replayFrames) : \E slot \in Slots :
       result.replayFrames[i].state[slot].direction # result.replayFrames[1].state[slot].direction
  /\ \E slot \in Slots : ~result.replayFrames[Len(result.replayFrames)].state[slot].alive

\* what each line of the parsed script is: "rule", "blank", "comment" or
\* "malformed"
LineKinds == [i \in 1..Len(request.lines) |-> ScriptLines[request.lines[i]].kind]

\* the rule of every line of the script that states one, in the order of the
\* lines, each with the number of its line
CompleteRuleList ==
  LET stating == SelectSeq([i \in 1..Len(request.lines) |-> i],
                           LAMBDA i : LineKinds[i] = "rule")
  IN [k \in 1..Len(stating) |->
        Rule(stating[k], ScriptLines[request.lines[stating[k]]].condition,
             ScriptLines[request.lines[stating[k]]].command)]

\* the script is no string, is empty or only whitespace, has more than 200
\* lines, has only blank lines and comments, or has a malformed line
ScriptMustFail ==
  \/ request.scriptText.kind # "string"
  \/ \A i \in 1..Len(request.lines) : LineKinds[i] = "blank"
  \/ Len(request.lines) > 200
  \/ \A i \in 1..Len(request.lines) : LineKinds[i] \in {"blank", "comment"}
  \/ \E i \in 1..Len(request.lines) : LineKinds[i] = "malformed"

\* C20: parseRobotScript is all-or-nothing. For an empty or whitespace-only
\* script, a script of more than 200 lines, a script whose lines are all blank
\* or comments, and a script with a malformed line (whatever its other lines
\* are) it throws an Error with a diagnostic and returns no rule; for every
\* other script it returns the complete rule list: one rule for each line that
\* states one, in order, with its line number.
ParseAllOrNothing ==
  pc = "parsed" =>
    IF ScriptMustFail
      THEN /\ result.threw
           /\ DOMAIN result = {"threw", "line", "message"}
           /\ result.message # ""
    ELSE /\ ~result.threw
         /\ result.value = CompleteRuleList

\* a script of three lines was parsed whose first two lines state rules and
\* whose third line is malformed: the parser threw for line 3
MalformedLineAfterRules ==
  /\ pc = "parsed"
  /\ LineKinds = <<"rule", "rule", "malformed">>
  /\ result.threw
  /\ result.line = 3

\* ---- uploads
\* the request is a call of the tool upload_robot_script
UploadCalled == request.method = "tools/call" /\ request.name = "upload_robot_script"

\* C21: handling a request writes a file or a robot document only when the
\* request calls upload_robot_script with userApprovalConfirmed exactly true;
\* a call of upload_robot_script with any other value, or without the field,
\* is answered with a JSON-RPC error.
UploadNeedsApproval ==
  [][pc = "mcp" =>
       /\ store' # store =>
            UploadCalled /\ request.arguments.userApprovalConfirmed = Bool(TRUE)
       /\ UploadCalled /\ request.arguments.userApprovalConfirmed # Bool(TRUE) =>
            result'.error /\ result'.code = -32602]_vars

\* an upload that is complete but for its approval, the string "true", refused
UnapprovedUploadRefused ==
  /\ pc = "answered"
  /\ UploadCalled
  /\ request.arguments.userApprovalConfirmed = Str(<<"t", "r", "u", "e">>)
  /\ MCP_ROBOT_UPLOAD_SCHEMA(request.arguments)
  /\ ~parseRobotScript(request.arguments.script).threw
  /\ ~normalizeRobotImageSvg(request.arguments.robotImageSvg).threw
  /\ result.error
  /\ store = NoStore

\* ---- projectiles in flight
\* half a tile, the advance of a projectile in one tick
HalfTile == Scale \div 2

\* the projectiles advanced by the tick being taken: those in flight and those
\* spawned in the tick
Flying == activeProjectiles \o locals'.fireResolution.spawnedProjectiles

\* the point half a tile ahead of a projectile
AheadOf(p) ==
  [x |-> RoundDiv(p.position.x * Scale + p.direction.dx * HalfTile, Scale),
   y |-> RoundDiv(p.position.y * Scale + p.direction.dy * HalfTile, Scale)]

\* half a tile ahead, the projectile is on or beyond a wall it flies toward
WallAhead(p) ==
  \/ p.direction.dx > 0 /\ p.position.x * Scale + p.direction.dx * HalfTile
                              >= (arenaSize - 1) * Scale * Scale
  \/ p.direction.dx < 0 /\ p.position.x * Scale + p.direction.dx * HalfTile <= 0
  \/ p.direction.dy > 0 /\ p.position.y * Scale + p.direction.dy * HalfTile
                              >= (arenaSize - 1) * Scale * Scale
  \/ p.direction.dy < 0 /\ p.position.y * Scale + p.direction.dy * HalfTile <= 0

\* the tick being taken has a trace from this projectile's position, in its
\* direction, that hits
HitsNow(p) ==
  \E k \in 1..Len(ticks'[tick'].projectiles) :
    /\ ticks'[tick'].projectiles[k].from = p.position
    /\ ticks'[tick'].projectiles[k].direction = p.directionCardinal
    /\ ticks'[tick'].projectiles[k].hit

\* the tick being taken traces this projectile over half a tile, without a hit
AdvancesNow(p) ==
  \E k \in 1..Len(ticks'[tick'].projectiles) :
    /\ ticks'[tick'].projectiles[k].from = p.position
    /\ ticks'[tick'].projectiles[k].direction = p.directionCardinal
    /\ ticks'[tick'].projectiles[k].to = AheadOf(p)
    /\ ~ticks'[tick'].projectiles[k].hit

\* the projectile stays in flight after the tick being taken, half a tile on
KeptNow(p) ==
  \E j \in 1..Len(activeProjectiles') :
    activeProjectiles'[j] = [p EXCEPT !.position = AheadOf(p),
                                      !.traveledDistance = @ + HalfTile]

\* C22: a projectile advances half a tile per tick and leaves the flight
\* exactly when it hits its target, when its travelled distance reaches the
\* range of 5 tiles, or when it reaches the arena wall: a projectile in
\* flight has travelled 1 to 9 half tiles, is traced in every tick until it
\* is retired, its tenth trace ends 5 tiles from the spawn point, and a tick
\* has no trace but those of the projectiles in flight or spawned in it.
ProjectileLife ==
  [][pc = "loop" /\ tick' = tick + 1 =>
       /\ \A i \in 1..Len(Flying) :
            /\ KeptNow(Flying[i]) <=>
                  ~(\/ HitsNow(Flying[i])
                    \/ Flying[i].traveledDistance + HalfTile >= SHOT_RANGE * Scale
                    \/ WallAhead(Flying[i]))
            /\ KeptNow(Flying[i]) => AdvancesNow(Flying[i])
            /\ i <= Len(activeProjectiles) =>
                  \E k \in 1..Len(ticks'[tick'].projectiles) :
                    /\ ticks'[tick'].projectiles[k].from = Flying[i].position
                    /\ ticks'[tick'].projectiles[k].direction = Flying[i].directionCardinal
            /\ Flying[i].traveledDistance = 9 * HalfTile
                  /\ ~HitsNow(Flying[i]) /\ ~WallAhead(Flying[i]) =>
                  AdvancesNow(Flying[i]) /\ ~KeptNow(Flying[i])
       /\ Len(ticks'[tick'].projectiles) <= Len(Flying)
       /\ Len(activeProjectiles') <= Len(Flying)
       /\ \A j \in 1..Len(activeProjectiles') :
            activeProjectiles'[j].traveledDistance \in {m * HalfTile : m \in 1..9}]_vars

\* the trace from (x1, y) to (x2, y), in half tiles, is in the log of tick k
TracedAlongRow(k, x1, x2, y) ==
  \E i \in 1..Len(ticks[k].projectiles) :
    /\ ticks[k].projectiles[i].from = [x |-> x1 * HalfTile, y |-> y * HalfTile]
    /\ ticks[k].projectiles[i].to = [x |-> x2 * HalfTile, y |-> y * HalfTile]
    /\ ~ticks[k].projectiles[i].hit

\* the first shot of a gunner in the corner of a 7 x 7 arena was traced in the
\* ticks 1 to 10, a half tile each, up to 5 tiles from the corner, and tick 11
\* has no trace that far out
TenTracesThenNone ==
  /\ tick = 11
  /\ arenaSize = MIN_ARENA_SIZE + 1
  /\ programs = [robotA |-> GunnerProgram, robotB |-> IdleProgram]
  /\ \A k \in 1..10 : TracedAlongRow(k, k - 1, k, 0)
  /\ \A i \in 1..Len(ticks[11].projectiles) :
       ticks[11].projectiles[i].from.x < 10 * HalfTile

\* C23: in every tick in which a robot's shotFired is true, the projectile
\* list of the tick has a trace that starts at the position of the shooter,
\* also for a shooter that stands on an arena wall and faces it.
EveryShotIsTraced ==
  tick > 0 =>
    \A slot \in DOMAIN LastTick.actions :
      LastTick.actions[slot].firing.shotFired =>
        \E i \in 1..Len(LastTick.projectiles) :
          LastTick.projectiles[i].from = [x |-> locals.fireResolution[slot].x,
                                         y |-> locals.fireResolution[slot].y]

\* ---- rules on unavailable values
\* rule i of a robot's program is a comparison with an unavailable operand, or
\* the NOT of one
RestsOnUnavailable(slot, i) ==
  \/ ComparesUnavailable(slot, i)
  \/ /\ programs[slot][i].condition.type = "NOT"
     /\ programs[slot][i].condition.operand.type = "COMPARE"
     /\ \/ Unavailable(programs[slot][i].condition.operand.left, SensorsOf(slot))
        \/ Unavailable(programs[slot][i].condition.operand.right, SensorsOf(slot))

\* C24: a rule whose condition is a single comparison with an unavailable
\* operand, or the NOT of such a comparison, is not matched in that tick, and
\* its command is not applied: a program of that one rule leaves the neutral
\* controls.
UnavailableRuleNotMatched ==
  pc = "resolved" =>
    \A slot \in Slots : \A i \in 1..Len(programs[slot]) :
      RestsOnUnavailable(slot, i) =>
        /\ programs[slot][i].line \notin
             {decision[slot].matchedRuleLines[k] : k \in 1..Len(decision[slot].matchedRuleLines)}
        /\ Len(programs[slot]) = 1 => decision[slot].controls = neutralControls

\* ---- simultaneous kills
\* in the tick being taken, a projectile of the shooter that is at least half
\* a tile from the wall passes within SHOT_HIT_RADIUS of the target, which is
\* alive when the projectiles advance
MeetsHitCondition(shooter, target) ==
  /\ locals'.fireResolution[target].alive
  /\ \E i \in 1..Len(Flying) :
       /\ Flying[i].shooterRobotId = robots[shooter].id
       /\ Flying[i].targetRobotId = robots[target].id
       /\ ~WallAhead(Flying[i])
       /\ pointToSegmentWithin([x |-> locals'.fireResolution[target].x,
                                y |-> locals'.fireResolution[target].y],
                               Flying[i].position, AheadOf(Flying[i]), SHOT_HIT_RADIUS)

\* C25: the controls of both robots in a tick are resolved from the state the
\* two robots have at the start of that tick, and the kills of a tick are
\* simultaneous: when in one tick a projectile of A meets the hit condition
\* on B and a projectile of B meets it on A, both robots are dead at the end
\* of the tick, and the battle returns a draw without a winner.
SimultaneousKills ==
  /\ [][pc = "loop" /\ tick' = tick + 1 =>
          /\ \A slot \in Slots :
               decision'[slot] =
                 resolveControls(programs[slot],
                   buildSensorContext(tickSideBoostState(robots[slot]),
                                      tickSideBoostState(robots[Other(slot)]),
                                      buildPerception(tickSideBoostState(robots[slot]),
                                                      tickSideBoostState(robots[Other(slot)]),
                                                      arenaSize),
                                      arenaSize))
          /\ MeetsHitCondition("robotA", "robotB") /\ MeetsHitCondition("robotB", "robotA") =>
               ~robots'.robotA.alive /\ ~robots'.robotB.alive /\ pc' = "break"]_vars
  /\ [](pc = "done" /\ ~result.finalState.robotA.alive /\ ~result.finalState.robotB.alive =>
          result.status = "draw" /\ result.winnerRobotId = "null")

\* a battle returned after a tick in which each robot was hit by a projectile
\* of the other
MutualKill ==
  /\ pc = "done"
  /\ result.status = "draw"
  /\ \A slot \in Slots :
       /\ LastTick.startState[slot].alive
       /\ ~LastTick.endState[slot].alive
       /\ \E i \in HitTraces(LastTick) :
            LastTick.projectiles[i].targetRobotId = robots[slot].id

\* ---- the fire cooldown
\* C26: the fire cooldown never blocks a shot: in every tick, a robot that is
\* alive, whose fire control is true and whose energy at the firing phase is
\* at least FIRE_ENERGY_COST fires one projectile, so a trigger held over
\* consecutive ticks fires in each of them; the cooldown is always 0 or 1.
CooldownNeverBlocks ==
  /\ \A slot \in Slots : robots[slot].fireCooldownTicks \in {0, 1}
  /\ tick > 0 =>
       \A slot \in Slots :
         /\ locals.moved[slot].alive
         /\ locals.controls[slot].fire
         /\ locals.moved[slot].energy >= FIRE_ENERGY_COST * Scale
         => /\ locals.fireResolution.outcomes[slot].shotFired
            /\ Len(SpawnedBy(slot)) = 1
            /\ locals.fireResolution[slot].fireCooldownTicks = 1

\* a robot fired in three ticks in a row
FiredInConsecutiveTicks ==
  /\ tick >= 3
  /\ \E slot \in Slots :
       \A k \in (tick - 2)..tick :
         /\ slot \in DOMAIN ticks[k].actions
         /\ ticks[k].actions[slot].firing.shotFired
         /\ ticks[k].actions[slot].firing.cooldownRemaining = 1

\* ---- the stationary duel
\* the duel of a gunner standing at (3, 5) and heading East against an idle
\* robot standing at (7, 5), at least one tick in
StationaryDuel ==
  /\ tick >= 1
  /\ programs = [robotA |-> GunnerProgram, robotB |-> IdleProgram]
  /\ ticks[1].startState.robotA.x = 3 * Scale /\ ticks[1].startState.robotA.y = 5 * Scale
  /\ ticks[1].startState.robotA.angleDeg = 0
  /\ ticks[1].startState.robotB.x = 7 * Scale /\ ticks[1].startState.robotB.y = 5 * Scale

\* the log of tick k has a trace that hits and ends at (7, 5)
HitAtTick(k) ==
  \E i \in 1..Len(ticks[k].projectiles) :
    /\ ticks[k].projectiles[i].hit
    /\ ticks[k].projectiles[i].to = [x |-> 7 * Scale, y |-> 5 * Scale]

UnclampedProposal(slot) ==
  [x |-> BeforeMove(slot).x
           + plannedDelta(BeforeMove(slot), locals.controls[slot]).delta.x
           + resolveSideBoost(BeforeMove(slot), locals.controls[slot],
                              [x |-> BeforeMove(slot).x, y |-> BeforeMove(slot).y],
                              arenaSize).delta.x,
   y |-> BeforeMove(slot).y
           + plannedDelta(BeforeMove(slot), locals.controls[slot]).delta.y
           + resolveSideBoost(BeforeMove(slot), locals.controls[slot],
                              [x |-> BeforeMove(slot).x, y |-> BeforeMove(slot).y],
                              arenaSize).delta.y]

\* the proposal brought back into [0, N - 1] on each axis
ClampedProposal(slot) ==
  [x |-> Max2(0, Min2((arenaSize - 1) * Scale, UnclampedProposal(slot).x)),
   y |-> Max2(0, Min2((arenaSize - 1) * Scale, UnclampedProposal(slot).y))]

\* the robot is after the movement of the latest tick where it was before it
StaysPut(slot) ==
  /\ locals.moved[slot].x = BeforeMove(slot).x
  /\ locals.moved[slot].y = BeforeMove(slot).y

\* the two clamped proposals of the latest tick are within 0.68 tile of each
\* other and both robots are alive
ProposalsCollide ==
  /\ BeforeMove("robotA").alive /\ BeforeMove("robotB").alive
  /\ HypotLeq(ClampedProposal("robotA").x - ClampedProposal("robotB").x,
              ClampedProposal("robotA").y - ClampedProposal("robotB").y,
              2 * ROBOT_COLLISION_RADIUS)

\* C28: when the two clamped proposals of a tick are within 0.68 of each
\* other and both robots are alive, every robot whose attempted flag is true
\* ends the tick at its start position with blockedByRobot = true; and in
\* every tick a robot whose attempted flag is false ends at its start
\* position.
CollisionsRevertMovers ==
  tick > 0 =>
    \A slot \in Slots :
      /\ ProposalsCollide /\ locals.moved.outcomes[slot].attempted =>
           StaysPut(slot) /\ locals.moved.outcomes[slot].blockedByRobot
      /\ ~locals.moved.outcomes[slot].attempted =>
           /\ StaysPut(slot)
           /\ locals.moved.outcomes[slot].dx = 0 /\ locals.moved.outcomes[slot].dy = 0

\* a head-on approach reverted for both robots
HeadOnBothReverted ==
  /\ tick > 0
  /\ ProposalsCollide
  /\ \A slot \in Slots :
       /\ locals.moved.outcomes[slot].attempted
       /\ locals.moved.outcomes[slot].blockedByRobot
       /\ StaysPut(slot)

\* every component of the move a robot planned in the latest tick is zero or
\* leads out of the arena from the edge the robot stands on, and not all are
\* zero
MoveLeadsOut(slot) ==
  /\ UnclampedProposal(slot) # [x |-> BeforeMove(slot).x, y |-> BeforeMove(slot).y]
  /\ \/ UnclampedProposal(slot).x = BeforeMove(slot).x
     \/ BeforeMove(slot).x = 0 /\ UnclampedProposal(slot).x < 0
     \/ BeforeMove(slot).x = (arenaSize - 1) * Scale
          /\ UnclampedProposal(slot).x > (arenaSize - 1) * Scale
  /\ \/ UnclampedProposal(slot).y = BeforeMove(slot).y
     \/ BeforeMove(slot).y = 0 /\ UnclampedProposal(slot).y < 0
     \/ BeforeMove(slot).y = (arenaSize - 1) * Scale
          /\ UnclampedProposal(slot).y > (arenaSize - 1) * Scale

\* C29: a robot on an arena edge whose whole planned move leads out of the
\* arena ends the tick at its start position with attempted = true,
\* hitBoundary = true and a reported displacement of zero; and hitBoundary is
\* true in a tick exactly when the unclamped proposal of that tick lies
\* outside [0, N - 1] on some axis.
BoundaryStopsMove ==
  tick > 0 =>
    \A slot \in Slots :
      /\ BeforeMove(slot).alive /\ MoveLeadsOut(slot) =>
           /\ StaysPut(slot)
           /\ locals.moved.outcomes[slot].attempted
           /\ locals.moved.outcomes[slot].hitBoundary
           /\ locals.moved.outcomes[slot].dx = 0
           /\ locals.moved.outcomes[slot].dy = 0
           /\ locals.moved.outcomes[slot].distance = 0
      /\ locals.moved.outcomes[slot].hitBoundary <=>
           \/ UnclampedProposal(slot).x < 0
           \/ UnclampedProposal(slot).x > (arenaSize - 1) * Scale
           \/ UnclampedProposal(slot).y < 0
           \/ UnclampedProposal(slot).y > (arenaSize - 1) * Scale

\* a robot at the west wall, heading West, drove against the wall
DroveAgainstWall ==
  /\ tick > 0
  /\ BeforeMove("robotA").alive
  /\ BeforeMove("robotA").x = 0 /\ BeforeMove("robotA").heading = 1800
  /\ locals.controls.robotA.throttle = Scale
  /\ MoveLeadsOut("robotA")
  /\ locals.moved.outcomes.robotA.hitBoundary
  /\ StaysPut("robotA")

\* ---- rotation
\* 2^-40 rad, far above the rounding of a few hundred additions and far below
\* a hundredth of a degree
RoundingAllowance == <<0, 4, 0, 0>>

\* |a - b|
BigGap(a, b) == IF BigLess(a, b) THEN BigSub(b, a) ELSE BigSub(a, b)

\* the angle from one heading to another, counted the way the turn goes
TurnedAngle(from, to, negative) ==
  IF negative
  THEN (IF BigLess(from, to) THEN BigSub(BigAdd(from, TwoPiRad), to) ELSE BigSub(from, to))
  ELSE (IF BigLess(to, from) THEN BigSub(BigAdd(to, TwoPiRad), from) ELSE BigSub(to, from))

\* the distance between two headings around the circle
CircularGap(a, b) ==
  IF BigLess(BigGap(a, b), BigSub(TwoPiRad, BigGap(a, b)))
  THEN BigGap(a, b)
  ELSE BigSub(TwoPiRad, BigGap(a, b))

\* the number of ticks that turn x 6 degrees, or turn x 3 degrees while
\* firing, take for 360 degrees
TicksPerFullTurn(controls) ==
  (360 * Scale) \div (Abs(controls.turn) * (IF controls.fire THEN 3 ELSE 6))

\* the latest rotation turned the heading by turn x 6 degrees, by turn x 3
\* degrees while firing, up to rounding
TurnedByRate ==
  tick > 0 =>
       ~BigLess(RoundingAllowance,
                BigGap(BigTimes(TurnedAngle(locals.beforeRad, locals.headingRad,
                                            decision.turn < 0),
                                TicksPerFullTurn(decision)),
                       TwoPiRad))

\* C30 as stated: each tick the heading changes by turn x 6 degrees, by
\* turn x 3 degrees while firing, normalised into [0, 360), and with SET TURN
\* 1 and no fire the heading after 60 ticks equals the initial heading.
HeadingReturnsExactly ==
  pc = "rotation" =>
    /\ TurnedByRate
    /\ BigLess(locals.headingRad, TwoPiRad)
    /\ tick = 60 /\ decision.turn = Scale /\ ~decision.fire =>
         locals.headingRad = locals.initialRad

\* C30: each tick the heading changes by turn x 6 degrees, by turn x 3
\* degrees while firing, up to the rounding of the addition, and stays in
\* [0, 360], the 360 included: a sum just below 0 is rounded onto 2 pi when
\* 2 pi is added.  Once the ticks of a full turn have passed (60 ticks with
\* SET TURN 1 and no fire) the heading is the initial heading up to rounding,
\* around the circle: closer than 2^-40 rad.
HeadingReturnsWithinRounding ==
  pc = "rotation" =>
    /\ TurnedByRate
    /\ ~BigLess(TwoPiRad, locals.headingRad)
    /\ tick = TicksPerFullTurn(decision) =>
         ~BigLess(RoundingAllowance, CircularGap(locals.headingRad, locals.initialRad))

\* 60 ticks of SET TURN 1 without fire from the heading East, 0: the heading
\* is the double just below 2 pi, not 0
FullTurnEndsBelowTwoPi ==
  /\ pc = "rotation"
  /\ tick = 60 /\ decision.turn = Scale /\ ~decision.fire
  /\ locals.initialRad = headingRadByDirection.E
  /\ locals.headingRad # locals.initialRad
  /\ BigLess(locals.headingRad, TwoPiRad)
  /\ BigLess(BigSub(TwoPiRad, locals.headingRad), RoundingAllowance)

\* ---- movement rates
\* a robot that is alive moved in the latest tick without a boost, a wall or
\* the other robot in its way
Unobstructed(slot) ==
  /\ tick > 0
  /\ BeforeMove(slot).alive
  /\ ~locals.moved.outcomes[slot].boostUsed
  /\ ~locals.moved.outcomes[slot].blockedByRobot
  /\ ~locals.moved.outcomes[slot].hitBoundary

\* 48 x Scale x the displacement the rates give along one axis, on which the
\* heading has the component forward and the right-hand side the component
\* right: throttle / 8 forward or throttle / 16 backward, plus strafe / 12
RatedMove(controls, forward, right) ==
  forward * controls.throttle * (IF controls.throttle >= 0 THEN 6 ELSE 3)
    + right * controls.strafe * 4

\* a reported displacement is the rated one, halved while firing, to 4 decimals
AtRate(reported, controls, forward, right) ==
  Abs(reported * 48 * Scale * (IF controls.fire THEN 2 ELSE 1)
        - RatedMove(controls, forward, right))
    <= 24 * Scale * (IF controls.fire THEN 2 ELSE 1)

\* the robot moves on a heading along one of the two axes
OnAxis(slot) == BeforeMove(slot).heading % (FullTurn \div 4) = 0

ConeConditions(actor, opponent) ==
  LET Holds(dx, dy, forward, lateral) ==
        /\ opponent.alive
        /\ dx * dx + dy * dy <= (VISION_RADIUS * (Scale \div 10)) * (VISION_RADIUS * (Scale \div 10))
        /\ forward > 0
        /\ lateral * lateral <= 3 * forward * forward
      InFrame(dx, dy, local) ==
        Holds(dx, dy, local.forward \div (10 * Scale), Abs(local.lateral) \div (10 * Scale))
  IN InFrame((opponent.x - actor.x) \div 10, (opponent.y - actor.y) \div 10,
             toLocalCoordinates(actor.heading, opponent.x - actor.x, opponent.y - actor.y))

\* the start and the end perception of the latest tick agree with the cone
\* conditions for every robot
SeesByCone(slot) ==
  /\ locals.startPerception[slot].enemyVisible
       = ConeConditions(AtTickStart(slot), AtTickStart(Other(slot)))
  /\ locals.endPerception[slot].enemyVisible
       = ConeConditions(AtTickEnd(slot), AtTickEnd(Other(slot)))

\* the first tick of a battle in a 10x10 arena, A at (0,0) heading East and B
\* at (9,9) heading West
CornerStartOfTen ==
  /\ tick = 1
  /\ arenaSize = 10
  /\ AtTickStart("robotA").x = 0 /\ AtTickStart("robotA").y = 0
  /\ AtTickStart("robotA").heading = 0
  /\ AtTickStart("robotB").x = 9 * Scale /\ AtTickStart("robotB").y = 9 * Scale
  /\ AtTickStart("robotB").heading = FullTurn \div 2

ParsedCondition == result.value[1].condition
Atom(i) == ConditionAtoms[i].condition

\* C33: NOT binds tighter than AND and AND tighter than OR, AND and OR
\* associate to the left, and parentheses override this: for conditions a, b
\* and c without a top-level AND or OR, "NOT a AND b OR c" parses to
\* OR(AND(NOT(a), b), c) and "NOT (a OR b)" to NOT(OR(a, b)).
ConditionPrecedence ==
  pc = "parsed" /\ request.form \in ConditionForms =>
    /\ ~result.threw
    /\ Len(result.value) = 1
    /\ request.form = "NOT a AND b OR c" =>
         ParsedCondition
           = Logical("OR", Logical("AND", Not(Atom(request.a)), Atom(request.b)),
                     Atom(request.c))
    /\ request.form = "NOT (a OR b)" =>
         ParsedCondition = Not(Logical("OR", Atom(request.a), Atom(request.b)))
    /\ request.form = "a OR b AND c" =>
         ParsedCondition
           = Logical("OR", Atom(request.a), Logical("AND", Atom(request.b), Atom(request.c)))
    /\ request.form = "a AND b AND c" =>
         ParsedCondition
           = Logical("AND", Logical("AND", Atom(request.a), Atom(request.b)), Atom(request.c))
    /\ request.form = "a OR b OR c" =>
         ParsedCondition
           = Logical("OR", Logical("OR", Atom(request.a), Atom(request.b)), Atom(request.c))
    /\ request.form = "(a OR b) AND c" =>
         ParsedCondition
           = Logical("AND", Logical("OR", Atom(request.a), Atom(request.b)), Atom(request.c))

\* "IF NOT not 1=1 AND (2<1) OR 1>2 THEN FIRE" was parsed
ParsedNotAndOr ==
  /\ pc = "parsed"
  /\ request.form = "NOT a AND b OR c"
  /\ request.a = 4 /\ request.b = 3 /\ request.c = 2
  /\ ~result.threw
  /\ ParsedCondition.type = "LOGICAL"
  /\ ParsedCondition.operator = "OR"
  /\ ParsedCondition.left.left
       = Not(Not(Compare(Literal(Scale), "==", Literal(Scale))))

\* ---- the value of a SET command
\* the SET line of the request was parsed
SetLineParsed == pc = "parsed" /\ request.form = "SET"
SetToken == ValueTokens[request.a]

\* C34: every SET command whose value token is not a well-formed numeric
\* literal inside [-1, 1] is rejected: a value below -1 or above 1 fails, a
\* malformed token such as a number followed by trailing characters fails,
\* and every accepted SET value v has -1 <= v <= 1.
BadSetValueRejected ==
  SetLineParsed =>
    /\ ~SetToken.wellFormed => result.threw
    /\ SetToken.wellFormed /\ Abs(SetToken.value) > 10 * Scale => result.threw
    /\ ~result.threw =>
         /\ result.value[1].command.type = "SET_CONTROL"
         /\ result.value[1].command.value >= -Scale
         /\ result.value[1].command.value <= Scale

\* ---- the sensor table
\* C35: every sensor identifier the parser accepts in an expression has, at
\* every rule evaluation, an entry in the table built by buildSensorContext
\* that is a finite number or the unavailable marker null; none is left
\* undefined.
AcceptedSensorsDefined ==
  \A slot \in Slots :
    \A variable \in SENSOR_VARIABLES :
      SensorsOf(slot).values[variable].kind \in {"number", "null"}

\* ---- the enemy memory at rule evaluation
\* in a table of sensor values the remembered enemy is the current one
PreviousEqualsCurrent(values) ==
  /\ values["PREV_ENEMY_DX"] = values["ENEMY_DX"]
  /\ values["PREV_ENEMY_DY"] = values["ENEMY_DY"]
  /\ values["PREV_ENEMY_DISTANCE"] = values["ENEMY_DISTANCE"]
  /\ values["PREV_ENEMY_X"] = values["ENEMY_X"]
  /\ values["PREV_ENEMY_Y"] = values["ENEMY_Y"]
  /\ values["PREV_ENEMY_HEADING"] = values["ENEMY_HEADING"]

DeltasAreZero(values) ==
  \A variable \in {"ENEMY_DX_DELTA", "ENEMY_DY_DELTA", "ENEMY_DISTANCE_DELTA"} :
    IsNum(values[variable]) => values[variable] = Num(0)

\* the memory of a robot is the one updateEnemyMemory leaves after the
\* perception its sensors are built from
MemoryMatches(memory, sensors) ==
  /\ (memory.ticksSinceEnemySeen = 0) = sensors.enemyVisible
  /\ DeltasAreZero(sensors.values)
  /\ sensors.enemyVisible => PreviousEqualsCurrent(sensors.values)

\* C36: the start perception of a tick equals the end perception of the tick
\* before it (at tick 1: the perception the memory was initialised from), from
\* which the enemy memory was last updated; so at every rule evaluation with
\* the enemy visible PREV_ENEMY_DX, PREV_ENEMY_DY and PREV_ENEMY_DISTANCE
\* equal ENEMY_DX, ENEMY_DY and ENEMY_DISTANCE, and every ENEMY_*_DELTA
\* sensor that is available is 0.
MemoryIsCurrent ==
  /\ [][tick' = tick + 1 /\ tick > 0 => locals'.startPerception = locals.endPerception]_vars
  /\ [](\A slot \in Slots : MemoryMatches(robots[slot].enemyMemory, SensorsOf(slot)))

\* a robot evaluates its rules with the enemy in sight after a tick in which
\* the enemy moved
SeesEnemyThatMoved ==
  /\ pc = "loop"
  /\ tick > 1
  /\ locals.moved.outcomes.robotB.distance > 0
  /\ SensorsOf("robotA").enemyVisible
  /\ SensorsOf("robotA").values["ENEMY_DX_DELTA"] = Num(0)

\* ---- the bookkeeping of a burst
\* C37: at the end of every tick, for every robot, the boost direction is
\* locked if and only if burst ticks remain, the burst ticks remaining are in
\* 0..4, the cooldown is the burst ticks remaining + 6 while a burst is in
\* progress, and the cooldown is in 0..10.
BurstBookkeeping ==
  \A slot \in Slots :
    /\ (robots[slot].boostDirectionLocked # "NONE") = (robots[slot].boostBurstTicksRemaining > 0)
    /\ robots[slot].boostBurstTicksRemaining \in 0..4
    /\ robots[slot].boostBurstTicksRemaining > 0 =>
         robots[slot].boostCooldownTicks = robots[slot].boostBurstTicksRemaining + 6
    /\ robots[slot].boostCooldownTicks \in 0..10

\* a tick ended with one burst tick left and the cooldown at 7
LastBurstTickAhead ==
  /\ tick > 0
  /\ robots.robotA.boostBurstTicksRemaining = 1
  /\ robots.robotA.boostCooldownTicks = 7
  /\ robots.robotA.boostDirectionLocked # "NONE"

\* ---- the projectiles in flight
\* the projectiles of a robot in the list carried over to the next tick
InFlightOf(slot) ==
  {i \in 1..Len(activeProjectiles) : activeProjectiles[i].shooterRobotId = RobotIdOf[slot]}

\* C38: at the end of every tick every projectile in flight has travelled
\* more than 0 and less than its range of 5 and is at a position inside the
\* arena; each robot has at most 9 projectiles in flight and the list at
\* most 18 entries.
InFlightBounded ==
  /\ \A i \in 1..Len(activeProjectiles) :
       /\ activeProjectiles[i].traveledDistance > 0
       /\ activeProjectiles[i].traveledDistance < 5 * Scale
       /\ activeProjectiles[i].maxRange = 5 * Scale
       /\ activeProjectiles[i].position.x >= 0
       /\ activeProjectiles[i].position.x <= (arenaSize - 1) * Scale
       /\ activeProjectiles[i].position.y >= 0
       /\ activeProjectiles[i].position.y <= (arenaSize - 1) * Scale
  /\ \A slot \in Slots : Cardinality(InFlightOf(slot)) <= 9
  /\ Len(activeProjectiles) <= 18

\* a tick ended with 9 projectiles of robot A in flight, the oldest 4.5
\* tiles from where it was fired
NineInFlight ==
  /\ Cardinality(InFlightOf("robotA")) = 9
  /\ \E i \in InFlightOf("robotA") : activeProjectiles[i].traveledDistance = 9 * HalfTile

\* ---- boost and fire on one energy pool
\* the energy a robot has left after the boost debit of the latest tick
AfterBoostDebit(slot) == locals.moved[slot].energy

\* C39: fire and boost draw on one energy pool and the boost is debited before
\* the fire check of the same tick: where a boost ignites and FIRE is held, the
\* shot is fired only if the energy left after the 35-point debit is at least
\* 6, and is blocked by energy otherwise; a boost whose preconditions hold
\* ignites whether or not FIRE is held.
BoostDebitedBeforeFire ==
  tick > 0 =>
    \A slot \in Slots :
      IgnitionDue(slot) =>
        /\ locals.moved.outcomes[slot].boostUsed
        /\ AfterBoostDebit(slot) = BeforeMove(slot).energy - 35 * Scale
        /\ locals.fireResolution[slot].energy
             = AfterBoostDebit(slot)
                 - (IF locals.fireResolution.outcomes[slot].shotFired THEN 6 * Scale ELSE 0)
        /\ locals.controls[slot].fire =>
             /\ locals.fireResolution.outcomes[slot].shotFired
                  => AfterBoostDebit(slot) >= 6 * Scale
             /\ locals.fireResolution.outcomes[slot].blockedByEnergy
                  = (AfterBoostDebit(slot) < 6 * Scale)

\* a boost ignited with FIRE held and left too little energy for the shot
BoostLeftNoShot ==
  /\ tick > 0
  /\ IgnitionDue("robotA")
  /\ locals.controls.robotA.fire
  /\ locals.moved.outcomes.robotA.boostUsed
  /\ BeforeMove("robotA").energy < (35 + 6) * Scale
  /\ locals.fireResolution.outcomes.robotA.blockedByEnergy
  /\ ~locals.fireResolution.outcomes.robotA.shotFired

\* ---- the answers of the stdio bridge
\* the frame at index i was taken from the buffer
Processed(i) == i < locals.next
\* the responses written for the frame at index i
AnswersTo(i) == {k \in 1..Len(result) : result[k].of = i}
\* the frame is a request with an id and a method other than
\* notifications/initialized
ExpectsAnswer(i) ==
  /\ request[i].body = "object"
  /\ request[i].hasId
  /\ ~(request[i].jsonrpc /\ request[i].method = "notifications/initialized")

AnsweredAsFramed(i) ==
  /\ Cardinality(AnswersTo(i)) <= 1
  /\ ~Processed(i) => AnswersTo(i) = {}
  /\ request[i].body = "garbled" /\ Processed(i) =>
       \E k \in AnswersTo(i) : result[k].id = NullValue /\ result[k].code = -32700
  /\ request[i].body = "object" /\ ~request[i].hasId => AnswersTo(i) = {}
  /\ request[i].body = "null" => AnswersTo(i) = {}
  /\ request[i].body = "object" /\ request[i].hasId
       /\ request[i].jsonrpc /\ request[i].method = "notifications/initialized" =>
       AnswersTo(i) = {}
  /\ ExpectsAnswer(i) =>
       /\ \A k \in AnswersTo(i) : result[k].id = IdOf(i) /\ result[k].code # -32700
       /\ Processed(i) /\ i \notin locals.pending => Cardinality(AnswersTo(i)) = 1

\* C40: the bridge answers each well-framed request at most once: a request
\* with an id and a method other than notifications/initialized gets exactly
\* one response with its id, at once or, where it is forwarded, once the
\* fetch has settled, which it eventually does while the process runs; a
\* request without an id gets none; a body that is not JSON gets one -32700
\* error with the id null.
AnswersOnce ==
  /\ [](\A i \in 1..Len(request) : AnsweredAsFramed(i))
  /\ \A i \in 1..MaxFrames :
       (i <= Len(request) /\ Processed(i) /\ ExpectsAnswer(i))
         ~> (Cardinality(AnswersTo(i)) = 1 \/ pc = "exited")

\* the response to the second request was written before the response to the
\* first, and a request without an id was forwarded and not answered
AnsweredOutOfOrder ==
  /\ Len(result) = 2
  /\ result[1].of = 2
  /\ result[2].of = 1
  /\ result[2].id = Num(1)
  /\ locals.pending = {}

====
